---- MODULE Spec2Model ----
(***************************************************************************)
(* A model of gore, a backtracking regular-expression engine written in    *)
(* Go: the compiler from AST to bytecode, the backtracking VM with its     *)
(* pooled capture arrays, and the unanchored scans of the public API.      *)
(*                                                                         *)
(* Program counters, byte offsets and register indices are 0-based as in   *)
(* the Go source; TLA+ sequences are 1-based, so element i of a Go slice s *)
(* is s[i + 1] here.                                                       *)
(***************************************************************************)
EXTENDS Integers, Sequences, FiniteSets, TLC

(***************************************************************************)
(* Bounds of the model (not program constants).                            *)
(***************************************************************************)
\* Longest input drawn exhaustively over a pattern's alphabet.
MaxLen == 2
\* Deepest Go call stack of VM.match the model follows; the Go runtime
\* ends the process with a fatal stack overflow at its own (far larger) limit.
MaxDepth == 12
\* items capsPool keeps
MaxPool == 2
\* results a FindAll call collects before the model gives the call up as unbounded
MaxResults == 6

(***************************************************************************)
(* Program constants.                                                      *)
(***************************************************************************)
\* vm.go: make([]int, 0, 20) in capsPool.New
PoolCap == 20
\* utf8.RuneError, what DecodeRune yields for an invalid byte
RuneError == 65533

\* vm.go: const maxSteps = 1000000.  The model keeps the comparison
\* steps > maxSteps of VM.match and scales the number down so that a
\* frame of the small programs below can reach it.
maxSteps == 16

(***************************************************************************)
(* Input abstraction: StringInput / ReaderInput over a byte sequence.      *)
(* Bytes are restricted to 0x00..0xDF, so a rune is one byte (ASCII) or a  *)
(* two-byte sequence (lead 0xC2..0xDF, continuation 0x80..0xBF).           *)
(***************************************************************************)
IsCont(b) == b >= 128 /\ b <= 191
IsLead2(b) == b >= 194 /\ b <= 223

\* utf8.DecodeRune on s[pos:], as <<rune, width>>
DecodeRune(s, pos) ==
    LET b == s[pos + 1] IN
    IF b < 128 THEN <<b, 1>>
    ELSE IF IsLead2(b) /\ pos + 1 < Len(s) /\ IsCont(s[pos + 2])
         THEN <<(b - 192) * 64 + (s[pos + 2] - 128), 2>>
         ELSE <<RuneError, 1>>

\* utf8.DecodeLastRune on s[:pos], pos >= 1, as <<rune, width>>
DecodeLastRune(s, pos) ==
    LET b == s[pos] IN
    IF b < 128 THEN <<b, 1>>
    ELSE IF IsCont(b) /\ pos >= 2 /\ IsLead2(s[pos - 1])
         THEN <<(s[pos - 1] - 192) * 64 + (b - 128), 2>>
         ELSE <<RuneError, 1>>

\* Input.Step: the rune at pos and its width; <<0, 0>> at or past the end.
\* A negative pos makes the Go slice expression s[pos:] panic; callers
\* test StepPanics first.
StepPanics(s, pos) == pos < 0
Step(s, pos) == IF pos >= Len(s) THEN <<0, 0>> ELSE DecodeRune(s, pos)

\* Input.Context: the rune before pos; <<-1, 0>> at the start.
Context(s, pos) ==
    IF pos <= 0 THEN <<-1, 0>>
    ELSE DecodeLastRune(s, IF pos > Len(s) THEN Len(s) ELSE pos)

\* string(runes): the UTF-8 encoding of a rune sequence
RECURSIVE EncodeRunes(_)
EncodeRunes(rs) ==
    IF rs = <<>> THEN <<>>
    ELSE LET r == Head(rs) IN
         (IF r < 128 THEN <<r>>
          ELSE IF r < 2048 THEN <<192 + (r \div 64), 128 + (r % 64)>>
          ELSE <<224 + (r \div 4096), 128 + ((r \div 64) % 64), 128 + (r % 64)>>)
         \o EncodeRunes(Tail(rs))

HasPrefixAt(s, p, i) ==
    /\ i + Len(p) <= Len(s)
    /\ \A k \in 1..Len(p) : s[i + k] = p[k]

\* ReaderInput.Index: leftmost occurrence of the prefix at or after pos, or
\* -1.  The calls on strings use it too: the StringInput.Index next to
\* StringInput.Step is a stub of an older Input interface (it has no Len).
Index(s, prefix, pos) ==
    IF prefix = <<>> \/ pos >= Len(s) THEN -1
    ELSE LET hits == {i \in pos..Len(s) : HasPrefixAt(s, prefix, i)} IN
         IF hits = {} THEN -1
         ELSE CHOOSE i \in hits : \A j \in hits : i <= j

(***************************************************************************)
(* AST nodes (the parser's output).                                        *)
(***************************************************************************)
Literal(runes, fold) == [type |-> "Literal", Runes |-> runes, FoldCase |-> fold]
CharClass(ranges, neg, fold) ==
    [type |-> "CharClass", Ranges |-> ranges, Negated |-> neg, FoldCase |-> fold]
Concat(nodes) == [type |-> "Concat", Nodes |-> nodes]
Alternate(nodes) == [type |-> "Alternate", Nodes |-> nodes]
Quantifier(body, min, max, greedy) ==
    [type |-> "Quantifier", Body |-> body, Min |-> min, Max |-> max, Greedy |-> greedy]
Capture(body, index) == [type |-> "Capture", Body |-> body, Index |-> index]
Assertion(kind) == [type |-> "Assertion", Kind |-> kind, Multiline |-> FALSE]
\* an Assertion parsed while the m flag is on
MultilineAssertion(kind) == [type |-> "Assertion", Kind |-> kind, Multiline |-> TRUE]
Lookaround(body, neg, behind) ==
    [type |-> "Lookaround", Body |-> body, Negative |-> neg, Behind |-> behind]
Backreference(index) == [type |-> "Backreference", Index |-> index]

(***************************************************************************)
(* Bytecode (Inst, Prog) and the compiler.                                 *)
(***************************************************************************)
NoProg == "nil"

\* The zero value of Inst
ZeroInst ==
    [Op |-> "OpMatch", Val |-> 0, Ranges |-> <<>>, Negated |-> FALSE,
     FoldCase |-> FALSE, Out |-> 0, Out1 |-> 0, Idx |-> 0,
     AssertKind |-> "AssertStartText", Prog |-> NoProg,
     LookNeg |-> FALSE, LookBehind |-> FALSE]

MkInst(op) == [ZeroInst EXCEPT !.Op = op]

\* Compiler.emit: append, returning the new instruction's index
emit(insts, i) == [insts |-> Append(insts, i), ret |-> Len(insts)]

\* Compiler.analyzePrefix, as the bytes of the prefix string
RECURSIVE analyzePrefix(_)
analyzePrefix(node) ==
    CASE node.type = "Literal" ->
           IF node.FoldCase THEN <<>> ELSE EncodeRunes(node.Runes)
      [] node.type = "Concat" ->
           IF Len(node.Nodes) > 0 THEN analyzePrefix(node.Nodes[1]) ELSE <<>>
      [] node.type = "Capture" -> analyzePrefix(node.Body)
      [] OTHER -> <<>>

\* Compiler.analyzeFixedLengthRec.  The Go map `visited` is shared by the
\* whole traversal, so it is threaded through and returned.
RECURSIVE analyzeFixedLengthRec(_, _, _, _)
analyzeFixedLengthRec(prog, pc, currentLen, visited) ==
    IF pc \in visited \/ pc >= Len(prog.Insts)
    THEN [len |-> 0, visited |-> visited]
    ELSE LET v == visited \cup {pc}
             inst == prog.Insts[pc + 1]
         IN CASE inst.Op = "OpMatch" -> [len |-> currentLen, visited |-> v]
              [] inst.Op \in {"OpChar", "OpCharClass", "OpAny"} ->
                   analyzeFixedLengthRec(prog, pc + 1, currentLen + 1, v)
              [] inst.Op = "OpJmp" ->
                   analyzeFixedLengthRec(prog, inst.Out, currentLen, v)
              [] inst.Op = "OpSplit" ->
                   LET r1 == analyzeFixedLengthRec(prog, inst.Out, currentLen, v)
                       r2 == analyzeFixedLengthRec(prog, inst.Out1, currentLen, r1.visited)
                   IN [len |-> IF r1.len = r2.len /\ r1.len > 0 THEN r1.len ELSE 0,
                       visited |-> r2.visited]
              [] inst.Op \in {"OpSave", "OpAssert"} ->
                   analyzeFixedLengthRec(prog, pc + 1, currentLen, v)
              [] OTHER -> [len |-> 0, visited |-> v]

\* Compiler.analyzeFixedLength
analyzeFixedLength(prog, pc, currentLen) ==
    analyzeFixedLengthRec(prog, pc, currentLen, {}).len

\* Compiler.analyzeLookbehinds: the LookbehindLengths map of a program
analyzeLookbehinds(insts) ==
    [pc \in {q \in 0..(Len(insts) - 1) :
                insts[q + 1].Op = "OpLookaround" /\ insts[q + 1].LookBehind}
        |-> analyzeFixedLength(insts[pc + 1].Prog, insts[pc + 1].Prog.Start, 0)]

RECURSIVE Compile(_, _)
RECURSIVE compileNode(_, _)
RECURSIVE compileNodes(_, _, _)
RECURSIVE compileTimes(_, _, _)
RECURSIVE compileOptional(_, _, _, _)

\* the loop `for i := from; i < len(nodes); i++ { c.compileNode(nodes[i]) }`
compileNodes(insts, nodes, from) ==
    IF from >= Len(nodes) THEN insts
    ELSE compileNodes(compileNode(insts, nodes[from + 1]).insts, nodes, from + 1)

\* the loop `for i := 0; i < n; i++ { c.compileNode(body) }`
compileTimes(insts, body, n) ==
    IF n <= 0 THEN insts
    ELSE compileTimes(compileNode(insts, body).insts, body, n - 1)

\* for comparison, a quantifier that is compiled greedy whatever its flag
SplitTargetsGreedy(split, greedy, bodyStart, end) ==
    [split EXCEPT !.Out = bodyStart, !.Out1 = end]
\* the Split successors of a quantifier: the body first when greedy
SplitTargets(split, greedy, bodyStart, end) ==
    IF greedy THEN [split EXCEPT !.Out = bodyStart, !.Out1 = end]
              ELSE [split EXCEPT !.Out = end, !.Out1 = bodyStart]

\* compileQuantifier, {n,m}: the loop of (max - min) optional repetitions
compileOptional(insts, body, greedy, n) ==
    IF n <= 0 THEN insts
    ELSE LET split == Len(insts)
             bodyStart == split + 1
             b == compileNode(Append(insts, MkInst("OpSplit")), body).insts
             end == Len(b)
         IN compileOptional(
                [b EXCEPT ![split + 1] = SplitTargets(@, greedy, bodyStart, end)],
                body, greedy, n - 1)

\* Compiler.compileQuantifier
compileQuantifier(insts, q) ==
    LET start == Len(insts) IN
    IF q.Min = 0 /\ q.Max = -1 THEN
        LET split == start
            b == compileNode(Append(insts, MkInst("OpSplit")), q.Body).insts
            j == Append(b, [MkInst("OpJmp") EXCEPT !.Out = split])
            end == Len(j)
        IN [insts |-> [j EXCEPT ![split + 1] = SplitTargets(@, q.Greedy, start + 1, end)],
            ret |-> split]
    ELSE IF q.Min = 1 /\ q.Max = -1 THEN
        LET body == compileNode(insts, q.Body)
            bodyStart == body.ret
            split == Len(body.insts)
            s == Append(body.insts, MkInst("OpSplit"))
            end == Len(s)
        IN [insts |-> [s EXCEPT ![split + 1] = SplitTargets(@, q.Greedy, bodyStart, end)],
            ret |-> bodyStart]
    ELSE IF q.Min = 0 /\ q.Max = 1 THEN
        LET split == start
            b == compileNode(Append(insts, MkInst("OpSplit")), q.Body).insts
            end == Len(b)
        IN [insts |-> [b EXCEPT ![split + 1] = SplitTargets(@, q.Greedy, start + 1, end)],
            ret |-> split]
    ELSE IF q.Min = q.Max /\ q.Max > 0 THEN
        [insts |-> compileTimes(insts, q.Body, q.Min), ret |-> start]
    ELSE IF q.Min >= 0 /\ q.Max > q.Min THEN
        [insts |-> compileOptional(compileTimes(insts, q.Body, q.Min),
                                   q.Body, q.Greedy, q.Max - q.Min),
         ret |-> start]
    ELSE IF q.Min > 0 /\ q.Max = -1 THEN
        LET req == compileTimes(insts, q.Body, q.Min)
            split == Len(req)
            bodyStart == split + 1
            b == compileNode(Append(req, MkInst("OpSplit")), q.Body).insts
            j == Append(b, [MkInst("OpJmp") EXCEPT !.Out = split])
            end == Len(j)
        IN [insts |-> [j EXCEPT ![split + 1] = SplitTargets(@, q.Greedy, bodyStart, end)],
            ret |-> start]
    ELSE [insts |-> insts, ret |-> -1]

\* Compiler.compileNode: the instructions after emitting node, and the
\* index the Go function returns
compileNode(insts, n) ==
    CASE n.type = "Literal" ->
           [insts |-> insts \o [i \in 1..Len(n.Runes) |->
                          [MkInst("OpChar") EXCEPT !.Val = n.Runes[i],
                                                   !.FoldCase = n.FoldCase]],
            ret |-> IF Len(n.Runes) = 0 THEN -1 ELSE Len(insts)]
      [] n.type = "CharClass" ->
           emit(insts, [MkInst("OpCharClass") EXCEPT !.Ranges = n.Ranges,
                            !.Negated = n.Negated, !.FoldCase = n.FoldCase])
      [] n.type = "Concat" ->
           IF Len(n.Nodes) = 0 THEN [insts |-> insts, ret |-> -1]
           ELSE LET first == compileNode(insts, n.Nodes[1])
                IN [insts |-> compileNodes(first.insts, n.Nodes, 1), ret |-> first.ret]
      [] n.type = "Alternate" ->
           IF Len(n.Nodes) = 0 THEN [insts |-> insts, ret |-> -1]
           ELSE IF Len(n.Nodes) = 1 THEN compileNode(insts, n.Nodes[1])
           ELSE LET left == n.Nodes[1]
                    right == IF Len(n.Nodes) = 2 THEN n.Nodes[2]
                             ELSE Alternate(Tail(n.Nodes))
                    splitIdx == Len(insts)
                    l == compileNode(Append(insts, [MkInst("OpSplit") EXCEPT !.Out = splitIdx + 1]),
                                     left).insts
                    jmpIdx == Len(l)
                    r == compileNode(
                             [Append(l, MkInst("OpJmp")) EXCEPT ![splitIdx + 1].Out1 = jmpIdx + 1],
                             right).insts
                    end == Len(r)
                IN [insts |-> [r EXCEPT ![jmpIdx + 1].Out = end], ret |-> splitIdx]
      [] n.type = "Quantifier" -> compileQuantifier(insts, n)
      [] n.type = "Capture" ->
           LET idx1 == Len(insts)
               b == compileNode(Append(insts, [MkInst("OpSave") EXCEPT !.Idx = 2 * n.Index]),
                                n.Body).insts
           IN [insts |-> Append(b, [MkInst("OpSave") EXCEPT !.Idx = 2 * n.Index + 1]),
               ret |-> idx1]
      [] n.type = "Assertion" ->
           emit(insts, [MkInst("OpAssert") EXCEPT !.AssertKind = n.Kind])
      [] n.type = "Lookaround" ->
           emit(insts, [MkInst("OpLookaround") EXCEPT !.Prog = Compile(n.Body, 0),
                            !.LookNeg = n.Negative, !.LookBehind = n.Behind])
      [] n.type = "Backreference" ->
           emit(insts, [MkInst("OpBackref") EXCEPT !.Idx = n.Index])
      [] OTHER -> [insts |-> insts, ret |-> -1]

\* for comparison, a compiler that closes group 0 before the body
CompileClosedEarly(node, numCaptures) ==
    LET head == <<[MkInst("OpSave") EXCEPT !.Idx = 0], [MkInst("OpSave") EXCEPT !.Idx = 1]>>
        insts == Append(compileNode(head, node).insts, MkInst("OpMatch"))
    IN [Insts |-> insts,
        Start |-> 0,
        NumCap |-> numCaptures + 1,
        LookbehindLengths |-> analyzeLookbehinds(insts),
        Prefix |-> analyzePrefix(node)]
\* Compiler.Compile: Save(0), body, Save(1), Match, and the analyses
Compile(node, numCaptures) ==
    LET body == compileNode(<<[MkInst("OpSave") EXCEPT !.Idx = 0]>>, node).insts
        insts == body \o <<[MkInst("OpSave") EXCEPT !.Idx = 1], MkInst("OpMatch")>>
    IN [Insts |-> insts,
        Start |-> 0,
        NumCap |-> numCaptures + 1,
        LookbehindLengths |-> analyzeLookbehinds(insts),
        Prefix |-> analyzePrefix(node)]

(***************************************************************************)
(* Instruction semantics of VM.match (vm.go).                              *)
(***************************************************************************)
\* unicode.SimpleFold on the runes the model uses: the next rune of the
\* fold orbit (k -> U+212A -> K -> k, s -> U+017F -> S -> s)
SimpleFold(r) ==
    CASE r = 75 -> 107
      [] r = 107 -> 8490
      [] r = 8490 -> 75
      [] r = 83 -> 115
      [] r = 115 -> 383
      [] r = 383 -> 83
      [] r >= 65 /\ r <= 90 -> r + 32
      [] r >= 97 /\ r <= 122 -> r - 32
      [] OTHER -> r

\* the runes of r's fold orbit (an orbit has at most three runes)
FoldOrbit(r) == {r, SimpleFold(r), SimpleFold(SimpleFold(r))}

\* simpleFoldEqual
simpleFoldEqual(r1, r2) == r2 \in FoldOrbit(r1)

\* checkRanges
checkRanges(r, ranges) ==
    \E i \in 1..Len(ranges) : r >= ranges[i].Lo /\ r <= ranges[i].Hi

\* matchClass
matchClass(r, ranges, negated, foldCase) ==
    LET matched == IF foldCase THEN \E f \in FoldOrbit(r) : checkRanges(f, ranges)
                               ELSE checkRanges(r, ranges)
    IN IF negated THEN ~matched ELSE matched

\* isWordChar
isWordChar(r) ==
    \/ (r >= 65 /\ r <= 90)
    \/ (r >= 97 /\ r <= 122)
    \/ (r >= 48 /\ r <= 57)
    \/ r = 95

\* VM.isWordBoundary
isWordBoundary(s, pos) ==
    isWordChar(Context(s, pos)[1]) # isWordChar(Step(s, pos)[1])

\* VM.checkAssertion
checkAssertion(s, kind, pos) ==
    CASE kind = "AssertStartText" -> pos = 0
      [] kind = "AssertEndText" -> Step(s, pos)[1] = 0
      [] kind = "AssertWordBoundary" -> isWordBoundary(s, pos)
      [] kind = "AssertNotWordBoundary" -> ~isWordBoundary(s, pos)
      [] OTHER -> TRUE

\* whether checkAssertion calls input.Step
AssertionSteps(kind) ==
    kind \in {"AssertEndText", "AssertWordBoundary", "AssertNotWordBoundary"}

\* OpBackref, the comparison loop `for i := 0; i < capLen; i++`: the
\* outcome of its first iteration that does not fall through, or "pass"
BackrefLoop(s, capStart, pos, capLen) ==
    LET Stops(i) == \/ StepPanics(s, capStart + i)
                    \/ StepPanics(s, pos + i)
                    \/ Step(s, capStart + i)[2] = 0
                    \/ Step(s, pos + i)[2] = 0
                    \/ Step(s, capStart + i)[1] # Step(s, pos + i)[1]
        stops == {i \in 0..(capLen - 1) : Stops(i)}
    IN IF stops = {} THEN "pass"
       ELSE LET i == CHOOSE k \in stops : \A j \in stops : k <= j
            IN IF StepPanics(s, capStart + i) \/ StepPanics(s, pos + i)
               THEN "panic" ELSE "fail"

\* for comparison, a Backref that fails when its group is unset
UnsetBackrefFails(pc, pos) == [k |-> "fail", pc |-> pc, pos |-> pos, caps |-> <<>>]
\* OpBackref, vm.go:218-223: the group is unset (a register is -1): `pc++;
\* continue`, the position as it is (the caller fills in caps)
UnsetBackref(pc, pos) == [k |-> "next", pc |-> pc + 1, pos |-> pos, caps |-> <<>>]

\* One dispatch of VM.match for an instruction that makes no call:
\* k = "next" (continue the loop at pc, pos with caps), "match", "fail"
\* or "panic" (index or slice bounds out of range).
Exec(s, inst, pc, pos, caps) ==
    LET Next(pc2, pos2, caps2) == [k |-> "next", pc |-> pc2, pos |-> pos2, caps |-> caps2]
        Stop(k) == [k |-> k, pc |-> pc, pos |-> pos, caps |-> caps]
    IN CASE inst.Op = "OpMatch" -> Stop("match")
         [] inst.Op = "OpChar" ->
              IF StepPanics(s, pos) THEN Stop("panic")
              ELSE LET rw == Step(s, pos)
                       matched == IF inst.FoldCase THEN simpleFoldEqual(rw[1], inst.Val)
                                                   ELSE rw[1] = inst.Val
                   IN IF ~matched THEN Stop("fail")
                      ELSE Next(pc + 1, pos + rw[2], caps)
         [] inst.Op = "OpCharClass" ->
              IF StepPanics(s, pos) THEN Stop("panic")
              ELSE LET rw == Step(s, pos)
                   IN IF rw[2] = 0 THEN Stop("fail")
                      ELSE IF ~matchClass(rw[1], inst.Ranges, inst.Negated, inst.FoldCase)
                           THEN Stop("fail")
                      ELSE Next(pc + 1, pos + rw[2], caps)
         [] inst.Op = "OpAny" ->
              IF StepPanics(s, pos) THEN Stop("panic")
              ELSE LET rw == Step(s, pos)
                   IN IF rw[2] = 0 \/ rw[1] = 10 THEN Stop("fail")
                      ELSE Next(pc + 1, pos + rw[2], caps)
         [] inst.Op = "OpJmp" -> Next(inst.Out, pos, caps)
         [] inst.Op = "OpSave" ->
              IF inst.Idx < 0 \/ inst.Idx >= Len(caps) THEN Stop("panic")
              ELSE Next(pc + 1, pos, [caps EXCEPT ![inst.Idx + 1] = pos])
         [] inst.Op = "OpAssert" ->
              IF AssertionSteps(inst.AssertKind) /\ StepPanics(s, pos) THEN Stop("panic")
              ELSE IF ~checkAssertion(s, inst.AssertKind, pos) THEN Stop("fail")
              ELSE Next(pc + 1, pos, caps)
         [] inst.Op = "OpBackref" ->
              LET startIdx == inst.Idx * 2
                  endIdx == inst.Idx * 2 + 1
              IN IF startIdx >= Len(caps) \/ endIdx >= Len(caps) THEN Stop("fail")
                 ELSE LET capStart == caps[startIdx + 1]
                          capEnd == caps[endIdx + 1]
                          capLen == capEnd - capStart
                      IN IF capStart = -1 \/ capEnd = -1
                         THEN [UnsetBackref(pc, pos) EXCEPT !.caps = caps]
                         ELSE LET loop == BackrefLoop(s, capStart, pos, capLen)
                              IN IF loop = "pass" THEN Next(pc + 1, pos + capLen, caps)
                                 ELSE Stop(loop)

(***************************************************************************)
(* Patterns: the ASTs Parser.Parse returns for the pattern texts, with     *)
(* parser.captures, and the inputs each is matched against (every byte     *)
(* sequence over alpha of length at most MaxLen, and the texts in more).   *)
(***************************************************************************)
Lit(r) == Literal(<<r>>, FALSE)
Star(body) == Quantifier(body, 0, -1, TRUE)
Plus(body) == Quantifier(body, 1, -1, TRUE)
Times(body, n) == Quantifier(body, n, n, TRUE)
Ref(i) == Backreference(i)
\* (a\1)x*
RefBody == Concat(<<Capture(Concat(<<Lit(97), Ref(1)>>), 1), Star(Lit(120))>>)

(***************************************************************************)
(* The parser (Parser.parseExpr .. parseGroup).  A pattern text is the     *)
(* sequence of its bytes; the texts of this model are ASCII, so a byte is  *)
(* a rune.  The parser state ps is [pos, captures, flags].  Character      *)
(* classes in brackets and named groups are outside this model: a text     *)
(* that uses one is reported as such.                                      *)
(***************************************************************************)
\* the bytes the parser looks for
Ch ==
    [dollar |-> 36, lparen |-> 40, rparen |-> 41, star |-> 42, plus |-> 43,
     comma |-> 44, minus |-> 45, dot |-> 46, colon |-> 58, lt |-> 60,
     eq |-> 61, bang |-> 33, quest |-> 63, lbrack |-> 91, backslash |-> 92,
     caret |-> 94, lbrace |-> 123, bar |-> 124, rbrace |-> 125]

NoFlags == [caseInsensitive |-> FALSE, multiline |-> FALSE, dotall |-> FALSE]
\* NewParser
NewParser == [pos |-> 0, captures |-> 0, flags |-> NoFlags]

\* the element of a singleton set; {e(x) : x \in {call}} names the result of
\* a call as a value, which the call is then evaluated for once
The(S) == CHOOSE x \in S : TRUE

ParseOk(node, ps) == [err |-> FALSE, msg |-> "", node |-> node, ps |-> ps]
ParseErr(msg, ps) == [err |-> TRUE, msg |-> msg, node |-> [type |-> "none"], ps |-> ps]

\* Parser.peek: 0 at the end of the text
peek(in, ps) == IF ps.pos >= Len(in) THEN 0 ELSE in[ps.pos + 1]
\* Parser.consume: the state after it (the rune consumed is peek)
consume(in, ps) == [ps EXCEPT !.pos = IF @ >= Len(in) THEN @ ELSE @ + 1]

IsDigit(ch) == ch >= 48 /\ ch <= 57

\* the run of decimal digits at pos: its value (strconv.Atoi), how many
\* digits it has and the state after it
RECURSIVE ScanDigits(_, _, _, _)
ScanDigits(in, ps, val, n) ==
    IF ps.pos < Len(in) /\ IsDigit(peek(in, ps))
    THEN ScanDigits(in, consume(in, ps), val * 10 + (peek(in, ps) - 48), n + 1)
    ELSE [val |-> val, n |-> n, ps |-> ps]

\* for comparison, an atom position that takes a quantifier character as a
\* literal
NoQuantifierChar(ch) == FALSE
\* parseAtom, default case: the characters that need a target
IsQuantifierChar(ch) == ch \in {Ch.star, Ch.plus, Ch.quest, Ch.lbrace}

\* the `?` after a quantifier
Lazy(in, q, ps) ==
    IF ps.pos < Len(in) /\ peek(in, ps) = Ch.quest
    THEN ParseOk([q EXCEPT !.Greedy = FALSE], consume(in, ps))
    ELSE ParseOk(q, ps)

\* the loop over the flag letters of (?flags...: the state when it stops at
\* `)`, `:` or the end of the text, or the unknown flag
RECURSIVE FlagLetters(_, _, _)
FlagLetters(in, ps, turnOn) ==
    IF ps.pos >= Len(in) \/ peek(in, ps) \in {Ch.rparen, Ch.colon} THEN ParseOk([type |-> "none"], ps)
    ELSE LET ch == peek(in, ps)
             next == consume(in, ps)
         IN CASE ch = Ch.minus -> FlagLetters(in, next, FALSE)
              [] ch = 105 ->
                   FlagLetters(in, [next EXCEPT !.flags.caseInsensitive = turnOn], turnOn)
              [] ch = 109 ->
                   FlagLetters(in, [next EXCEPT !.flags.multiline = turnOn], turnOn)
              [] ch = 115 ->
                   FlagLetters(in, [next EXCEPT !.flags.dotall = turnOn], turnOn)
              [] OTHER -> ParseErr("unknown flag", ps)

RECURSIVE parseExpr(_, _), parseTerm(_, _, _), parseFactor(_, _), parseAtom(_, _),
          parseGroup(_, _), parseLookaround(_, _, _, _)

\* Parser.parseExpr: term | expr
parseExpr(in, ps) ==
    The({IF left.err THEN left
         ELSE IF left.ps.pos < Len(in) /\ peek(in, left.ps) = Ch.bar THEN
              The({IF right.err THEN right
                   ELSE IF right.node.type = "Alternate"
                   THEN ParseOk(Alternate(<<left.node>> \o right.node.Nodes), right.ps)
                   ELSE ParseOk(Alternate(<<left.node, right.node>>), right.ps) :
                   right \in {parseExpr(in, consume(in, left.ps))}})
         ELSE left :
         left \in {parseTerm(in, ps, <<>>)}})

\* Parser.parseTerm: the loop over factors, nodes being those parsed so far
parseTerm(in, ps, nodes) ==
    IF ps.pos < Len(in) /\ peek(in, ps) \notin {Ch.bar, Ch.rparen} THEN
        The({IF f.err THEN f ELSE parseTerm(in, f.ps, Append(nodes, f.node)) :
             f \in {parseFactor(in, ps)}})
    ELSE IF Len(nodes) = 1 THEN ParseOk(nodes[1], ps)
    ELSE ParseOk(Concat(nodes), ps)

\* Parser.parseFactor, the `{` consumed and the digits after it scanned:
\* {n}, {n,} or {n,m}
Braces(in, atom, min) ==
    LET comma == min.ps.pos < Len(in) /\ peek(in, min.ps) = Ch.comma
        open == comma /\ LET c == consume(in, min.ps)
                         IN c.pos < Len(in) /\ peek(in, c) = Ch.rbrace
        max == ScanDigits(in, consume(in, min.ps), 0, 0)
        last == IF ~comma THEN min.ps
                ELSE IF open THEN consume(in, min.ps)
                ELSE max.ps
        hi == IF ~comma THEN min.val ELSE IF open THEN -1 ELSE max.val
    IN IF min.n = 0 THEN ParseErr("invalid quantifier: missing number", min.ps)
       ELSE IF comma /\ ~open /\ max.n = 0
       THEN ParseErr("invalid quantifier: missing max", max.ps)
       ELSE IF comma /\ ~open /\ min.val > max.val
       THEN ParseErr("invalid quantifier: min cannot be greater than max", max.ps)
       ELSE IF last.pos >= Len(in) \/ peek(in, last) # Ch.rbrace
       THEN ParseErr("unclosed quantifier", last)
       ELSE Lazy(in, Quantifier(atom.node, min.val, hi, TRUE), consume(in, last))

\* Parser.parseFactor, the atom parsed: * + ? or {, then ?
Quantified(in, atom) ==
    LET ch == peek(in, atom.ps)
        after == consume(in, atom.ps)
    IN IF atom.err THEN atom
       ELSE IF atom.ps.pos >= Len(in) THEN atom
       ELSE IF ch = Ch.star THEN Lazy(in, Quantifier(atom.node, 0, -1, TRUE), after)
       ELSE IF ch = Ch.plus THEN Lazy(in, Quantifier(atom.node, 1, -1, TRUE), after)
       ELSE IF ch = Ch.quest THEN Lazy(in, Quantifier(atom.node, 0, 1, TRUE), after)
       ELSE IF ch = Ch.lbrace THEN The({Braces(in, atom, min) : min \in {ScanDigits(in, after, 0, 0)}})
       ELSE atom

\* Parser.parseFactor: atom, then its quantifier
parseFactor(in, ps) == The({Quantified(in, atom) : atom \in {parseAtom(in, ps)}})

\* Parser.parseAtom
parseAtom(in, ps) ==
    LET ch == peek(in, ps)
        next == consume(in, ps)
        fold == ps.flags.caseInsensitive
        esc == peek(in, next)
        after == consume(in, next)
        word == <<[Lo |-> 48, Hi |-> 57], [Lo |-> 65, Hi |-> 90],
                  [Lo |-> 95, Hi |-> 95], [Lo |-> 97, Hi |-> 122]>>
        space == <<[Lo |-> 9, Hi |-> 9], [Lo |-> 10, Hi |-> 10],
                   [Lo |-> 13, Hi |-> 13], [Lo |-> 32, Hi |-> 32]>>
    IN CASE ch = Ch.lparen -> parseGroup(in, next)
         [] ch = Ch.lbrack -> ParseErr("character class: outside the model", ps)
         [] ch = Ch.dot ->
              IF ps.flags.dotall
              THEN ParseOk(CharClass(<<[Lo |-> 0, Hi |-> 1114111]>>, FALSE, FALSE), next)
              ELSE ParseOk(CharClass(<<[Lo |-> 10, Hi |-> 10]>>, TRUE, FALSE), next)
         [] ch = Ch.backslash ->
              IF next.pos >= Len(in) THEN ParseErr("trailing backslash", next)
              ELSE CASE esc = 100 -> ParseOk(CharClass(<<[Lo |-> 48, Hi |-> 57]>>, FALSE, fold), after)
                     [] esc = 68 -> ParseOk(CharClass(<<[Lo |-> 48, Hi |-> 57]>>, TRUE, fold), after)
                     [] esc = 119 -> ParseOk(CharClass(word, FALSE, fold), after)
                     [] esc = 87 -> ParseOk(CharClass(word, TRUE, fold), after)
                     [] esc = 115 -> ParseOk(CharClass(space, FALSE, fold), after)
                     [] esc = 83 -> ParseOk(CharClass(space, TRUE, fold), after)
                     [] esc = 98 -> ParseOk(Assertion("AssertWordBoundary"), after)
                     [] esc = 66 -> ParseOk(Assertion("AssertNotWordBoundary"), after)
                     [] esc = 65 -> ParseOk(Assertion("AssertStringStart"), after)
                     [] esc = 90 -> ParseOk(Assertion("AssertStringEnd"), after)
                     [] esc = 122 -> ParseOk(Assertion("AssertAbsoluteEnd"), after)
                     [] esc = 110 -> ParseOk(Literal(<<10>>, fold), after)
                     [] esc = 116 -> ParseOk(Literal(<<9>>, fold), after)
                     [] esc = 114 -> ParseOk(Literal(<<13>>, fold), after)
                     [] esc = 102 -> ParseOk(Literal(<<12>>, fold), after)
                     [] esc = 118 -> ParseOk(Literal(<<11>>, fold), after)
                     [] esc >= 49 /\ esc <= 57 -> ParseOk(Backreference(esc - 48), after)
                     [] OTHER -> ParseOk(Literal(<<esc>>, fold), after)
         [] ch = Ch.caret ->
              ParseOk([Assertion("AssertStartText") EXCEPT !.Multiline = ps.flags.multiline], next)
         [] ch = Ch.dollar ->
              ParseOk([Assertion("AssertEndText") EXCEPT !.Multiline = ps.flags.multiline], next)
         [] ch \in {Ch.bar, Ch.rparen} -> ParseErr("unexpected meta char", ps)
         [] OTHER ->
              IF IsQuantifierChar(ch) THEN ParseErr("quantifier requires a target", ps)
              ELSE ParseOk(Literal(<<ch>>, fold), next)

\* the closing parenthesis of a capturing, (?: or lookaround group whose
\* body has been parsed; p.flags stays as the body left it
CloseGroup(in, body, node, msg) ==
    IF body.err THEN body
    ELSE IF peek(in, body.ps) # Ch.rparen THEN ParseErr(msg, consume(in, body.ps))
    ELSE ParseOk(node, consume(in, body.ps))

\* Parser.parseGroup, the opening parenthesis consumed
parseGroup(in, ps) ==
    IF peek(in, ps) = Ch.quest THEN
        LET q == consume(in, ps)
            ch == peek(in, q)
        IN IF q.pos < Len(in) /\ ch \in {105, 109, 115, Ch.minus} THEN
               The({IF fl.err THEN fl
                    ELSE IF fl.ps.pos < Len(in) /\ peek(in, fl.ps) = Ch.rparen
                    THEN ParseOk(Literal(<<>>, fl.ps.flags.caseInsensitive),
                                 consume(in, fl.ps))
                    ELSE IF fl.ps.pos < Len(in) /\ peek(in, fl.ps) = Ch.colon THEN
                         The({IF body.err THEN body
                              ELSE IF body.ps.pos >= Len(in) \/ peek(in, body.ps) # Ch.rparen
                              THEN ParseErr("unclosed group", consume(in, body.ps))
                              ELSE ParseOk(body.node,
                                           [consume(in, body.ps) EXCEPT !.flags = q.flags]) :
                              body \in {parseExpr(in, consume(in, fl.ps))}})
                    ELSE ParseErr("invalid flag syntax", fl.ps) :
                    fl \in {FlagLetters(in, q, TRUE)}})
           ELSE IF q.pos >= Len(in) THEN ParseErr("invalid group syntax", q)
           ELSE CASE ch = Ch.colon ->
                       The({CloseGroup(in, body, body.node, "unclosed non-capturing group") :
                            body \in {parseExpr(in, consume(in, q))}})
                  [] ch = 80 -> ParseErr("named group: outside the model", q)
                  [] ch = Ch.eq -> parseLookaround(in, consume(in, q), FALSE, FALSE)
                  [] ch = Ch.bang -> parseLookaround(in, consume(in, q), TRUE, FALSE)
                  [] ch = Ch.lt ->
                       LET l == consume(in, q)
                       IN IF peek(in, l) = Ch.bang
                          THEN parseLookaround(in, consume(in, l), TRUE, TRUE)
                          ELSE IF peek(in, l) = Ch.eq
                          THEN parseLookaround(in, consume(in, l), FALSE, TRUE)
                          ELSE ParseErr("invalid lookbehind syntax", l)
                  [] OTHER -> ParseErr("invalid group extension", q)
    ELSE The({CloseGroup(in, body, Capture(body.node, ps.captures + 1),
                         "unclosed capturing group") :
              body \in {parseExpr(in, [ps EXCEPT !.captures = @ + 1])}})

\* Parser.parseLookaround
parseLookaround(in, ps, negative, behind) ==
    The({CloseGroup(in, body, Lookaround(body.node, negative, behind),
                    "unclosed lookaround") :
         body \in {parseExpr(in, ps)}})

\* Parser.Parse
Parse(in) ==
    The({IF r.err THEN r
         ELSE IF r.ps.pos < Len(in) THEN ParseErr("unexpected character", r.ps)
         ELSE r :
         r \in {parseExpr(in, NewParser)}})

\* Compile(expr) of the package: the parser, then the compiler
RegexpCompile(expr) ==
    The({IF p.err THEN [err |-> TRUE, msg |-> p.msg, prog |-> NoProg]
         ELSE [err |-> FALSE, msg |-> "", prog |-> Compile(p.node, p.ps.captures)] :
         p \in {Parse(expr)}})

Patterns ==
    << [src |-> "a", ast |-> Lit(97), captures |-> 0,
        alpha |-> {97, 98}, more |-> {}],
       [src |-> "(a)b|a",
        ast |-> Alternate(<<Concat(<<Capture(Lit(97), 1), Lit(98)>>), Lit(97)>>),
        captures |-> 1, alpha |-> {97, 98}, more |-> {}],
       [src |-> "a*", ast |-> Star(Lit(97)), captures |-> 0,
        alpha |-> {97}, more |-> {<<195, 169>>, <<97, 195, 169>>}],
       [src |-> "(a*)*", ast |-> Star(Capture(Star(Lit(97)), 1)), captures |-> 1,
        alpha |-> {97}, more |-> {}],
       [src |-> "(?:)+", ast |-> Plus(Concat(<<>>)), captures |-> 0,
        alpha |-> {97}, more |-> {}],
       [src |-> "(?=(a))", ast |-> Lookaround(Capture(Lit(97), 1), FALSE, FALSE),
        captures |-> 1, alpha |-> {97}, more |-> {}],
       [src |-> "(?:(a\\1)x*){2}", ast |-> Times(RefBody, 2), captures |-> 1,
        alpha |-> {97, 120}, more |-> {<<97, 120, 120, 97>>}],
       [src |-> "(?:(a\\1)x*){2}\\1\\1\\1\\1",
        ast |-> Concat(<<Times(RefBody, 2), Ref(1), Ref(1), Ref(1), Ref(1)>>),
        captures |-> 1, alpha |-> {}, more |-> {<<98, 97, 120, 120, 97>>}],
       [src |-> "\\x00", ast |-> Lit(0), captures |-> 0,
        alpha |-> {0, 97}, more |-> {}],
       [src |-> "(?<!a)b",
        ast |-> Concat(<<Lookaround(Lit(97), TRUE, TRUE), Lit(98)>>),
        captures |-> 0, alpha |-> {97, 98}, more |-> {}],
       [src |-> "(?<=a*)b",
        ast |-> Concat(<<Lookaround(Star(Lit(97)), FALSE, TRUE), Lit(98)>>),
        captures |-> 0, alpha |-> {97, 98}, more |-> {}],
       [src |-> "^{17}", ast |-> Times(Assertion("AssertStartText"), 17),
        captures |-> 0, alpha |-> {97}, more |-> {}],
       [src |-> "a*?", ast |-> Quantifier(Lit(97), 0, -1, FALSE),
        captures |-> 0, alpha |-> {97}, more |-> {}],
       [src |-> "(?<=\\u00e9)b",
        ast |-> Concat(<<Lookaround(Lit(233), FALSE, TRUE), Lit(98)>>),
        captures |-> 0, alpha |-> {98}, more |-> {<<195, 169, 98>>}],
       [src |-> "(a)(?=b)",
        ast |-> Concat(<<Capture(Lit(97), 1), Lookaround(Lit(98), FALSE, FALSE)>>),
        captures |-> 1, alpha |-> {97, 98}, more |-> {}],
       [src |-> "(a)?\\1",
        ast |-> Concat(<<Quantifier(Capture(Lit(97), 1), 0, 1, TRUE), Ref(1)>>),
        captures |-> 1, alpha |-> {97, 98}, more |-> {}],
       [src |-> "(a)?(b)\\1",
        ast |-> Concat(<<Quantifier(Capture(Lit(97), 1), 0, 1, TRUE),
                         Capture(Lit(98), 2), Ref(1)>>),
        captures |-> 2, alpha |-> {97, 98}, more |-> {<<97, 98, 97>>}],
       [src |-> "(a*)\\1",
        ast |-> Concat(<<Capture(Star(Lit(97)), 1), Ref(1)>>),
        captures |-> 1, alpha |-> {97}, more |-> {<<97, 97, 97, 97>>}],
       [src |-> "((?:a*)*)\\1",
        ast |-> Concat(<<Capture(Star(Star(Lit(97))), 1), Ref(1)>>),
        captures |-> 1, alpha |-> {97}, more |-> {}],
       [src |-> "\\Astart",
        ast |-> Concat(<<Assertion("AssertStringStart"), Lit(115), Lit(116),
                         Lit(97), Lit(114), Lit(116)>>),
        captures |-> 0, alpha |-> {10},
        more |-> {<<115, 116, 97, 114, 116>>, <<10, 115, 116, 97, 114, 116>>}],
       [src |-> "end\\z",
        ast |-> Concat(<<Lit(101), Lit(110), Lit(100), Assertion("AssertAbsoluteEnd")>>),
        captures |-> 0, alpha |-> {10},
        more |-> {<<101, 110, 100>>, <<101, 110, 100, 10>>}],
       [src |-> "end\\Z",
        ast |-> Concat(<<Lit(101), Lit(110), Lit(100), Assertion("AssertStringEnd")>>),
        captures |-> 0, alpha |-> {10},
        more |-> {<<101, 110, 100>>, <<101, 110, 100, 10>>,
                  <<101, 110, 100, 10, 109, 111, 114, 101>>}],
       [src |-> "(?m)^line",
        ast |-> Concat(<<Literal(<<>>, FALSE), MultilineAssertion("AssertStartText"),
                         Lit(108), Lit(105), Lit(110), Lit(101)>>),
        captures |-> 0, alpha |-> {10},
        more |-> {<<102, 105, 114, 115, 116, 10, 108, 105, 110, 101>>}],
       [src |-> "^line",
        ast |-> Concat(<<Assertion("AssertStartText"),
                         Lit(108), Lit(105), Lit(110), Lit(101)>>),
        captures |-> 0, alpha |-> {},
        more |-> {<<102, 105, 114, 115, 116, 10, 108, 105, 110, 101>>,
                  <<108, 105, 110, 101>>}],
       [src |-> "(?m)end$",
        ast |-> Concat(<<Literal(<<>>, FALSE), Lit(101), Lit(110), Lit(100),
                         MultilineAssertion("AssertEndText")>>),
        captures |-> 0, alpha |-> {},
        more |-> {<<101, 110, 100, 10, 109, 111, 114, 101>>, <<101, 110, 100>>}],
       [src |-> "end$",
        ast |-> Concat(<<Lit(101), Lit(110), Lit(100), Assertion("AssertEndText")>>),
        captures |-> 0, alpha |-> {},
        more |-> {<<101, 110, 100, 10, 109, 111, 114, 101>>, <<101, 110, 100>>}],
       [src |-> "(a(?i)b)c",
        ast |-> Concat(<<Capture(Concat(<<Lit(97), Literal(<<>>, TRUE),
                                          Literal(<<98>>, TRUE)>>), 1),
                         Literal(<<99>>, TRUE)>>),
        captures |-> 1, alpha |-> {},
        more |-> {<<97, 98, 99>>, <<97, 98, 67>>, <<97, 66, 99>>}],
       [src |-> "b|(?:(a\\1)x*){2}\\1\\1\\1\\1",
        ast |-> Alternate(<<Lit(98),
                            Concat(<<Times(RefBody, 2), Ref(1), Ref(1), Ref(1), Ref(1)>>)>>),
        captures |-> 1, alpha |-> {}, more |-> {<<98, 97, 120, 120, 97>>}],
       [src |-> "a{2,4}", ast |-> Quantifier(Lit(97), 2, 4, TRUE), captures |-> 0,
        alpha |-> {97, 98},
        more |-> {<<97, 97, 97>>, <<97, 97, 97, 97, 97>>, <<98, 97, 97, 97, 97>>}],
       [src |-> "a{2,4}?", ast |-> Quantifier(Lit(97), 2, 4, FALSE), captures |-> 0,
        alpha |-> {97}, more |-> {<<97, 97, 97>>, <<97, 97, 97, 97, 97>>}],
       [src |-> "(?:(?i)a)+",
        ast |-> Plus(Concat(<<Literal(<<>>, TRUE), Literal(<<97>>, TRUE)>>)),
        captures |-> 0, alpha |-> {97}, more |-> {}],
       [src |-> "(?<=a|ab)c",
        ast |-> Concat(<<Lookaround(Alternate(<<Lit(97), Concat(<<Lit(97), Lit(98)>>)>>),
                                    FALSE, TRUE),
                         Lit(99)>>),
        captures |-> 0, alpha |-> {97, 99}, more |-> {<<97, 98, 99>>}] >>

Progs == [i \in 1..Len(Patterns) |-> Compile(Patterns[i].ast, Patterns[i].captures)]

RECURSIVE SeqsUpTo(_, _)
SeqsUpTo(A, n) ==
    IF n = 0 THEN {<<>>}
    ELSE LET shorter == SeqsUpTo(A, n - 1)
         IN shorter \cup {Append(x, a) : x \in {y \in shorter : Len(y) = n - 1}, a \in A}

InputsOf(i) == SeqsUpTo(Patterns[i].alpha, MaxLen) \cup Patterns[i].more

\* the program of a frame: the sub-program reached through the Lookaround
\* instructions at the pcs of path
RECURSIVE SubProg(_, _)
SubProg(P, path) ==
    IF path = <<>> THEN P ELSE SubProg(P.Insts[Head(path) + 1].Prog, Tail(path))

(***************************************************************************)
(* State.                                                                  *)
(***************************************************************************)
VARIABLES
    re,      \* the compiled Regexp shared by all goroutines: an index into Progs
    policy,  \* how sync.Pool.Get chooses: "reuse", "new" or "any"
    ops,     \* per goroutine, the API calls it makes: <<[name, n, input], ...>>
    thr,     \* per goroutine, its position in the API call and in the VM
    pool,    \* capsPool: the slices (array, length) put back and not yet taken
    heap,    \* the backing arrays of the capture slices, by array id
    comp     \* a call of Compile(expr): its argument, and its result once made

vars == <<re, policy, ops, thr, pool, heap, comp>>

Threads == DOMAIN thr

NoSlice == [arr |-> <<0, 0>>, len |-> 0]
NoRet == [ok |-> FALSE, end |-> -1]

\* the contents of a slice
Data(h, sl) == SubSeq(h[sl.arr], 1, sl.len)
\* the heap after writing data (of the slice's length) through a slice
WriteData(h, sl, data) ==
    [h EXCEPT ![sl.arr] = [i \in 1..Len(@) |-> IF i <= sl.len THEN data[i] ELSE @[i]]]

Fill(n, v) == [i \in 1..n |-> v]

\* A frame of VM.match: its program (path), pc, pos, caps and steps, its
\* nesting depth, and where it is: running, or waiting for the first
\* successor of its Split (on the slice copy) or for the sub-program of its
\* Lookaround (started at li).  snap and left only record history: the
\* registers when the Split was reached, and the registers of the first
\* successor when it failed.
Frame(path, pc, pos, caps, depth) ==
    [path |-> path, pc |-> pc, pos |-> pos, caps |-> caps, steps |-> 0,
     depth |-> depth, wait |-> "run", copy |-> NoSlice, li |-> 0,
     snap |-> <<>>, left |-> <<>>]

\* the arrays some goroutine or the pool still refers to
Live(th, pl) ==
    UNION {{th[t].stack[i].caps.arr : i \in 1..Len(th[t].stack)}
           \cup {th[t].stack[i].copy.arr : i \in 1..Len(th[t].stack)}
           \cup {th[t].runCaps.arr} : t \in DOMAIN th}
    \cup {it.arr : it \in pl}

\* the garbage collector: arrays nothing refers to are gone
Collect(h, th, pl) == [id \in (DOMAIN h) \cap Live(th, pl) |-> h[id]]

\* the id of an array goroutine t allocates: its first id not in use
NewId(t, h) ==
    <<t, CHOOSE k \in 1..(Cardinality(DOMAIN h) + 1) :
            /\ <<t, k>> \notin DOMAIN h
            /\ \A j \in 1..(k - 1) : <<t, j>> \in DOMAIN h>>

\* capsPool.Get() followed by the reslicing to n registers (vm.go:32-41 and
\* vm.go:125-131): the set of possible outcomes [sl, pool, heap].  Get
\* returns an item put back earlier or calls New (make([]int, 0, 20)); which
\* of them is up to sync.Pool, and `policy` narrows it.
PoolGet(t, n) ==
    LET Resliced(it, pl, h) ==
            IF Len(h[it.arr]) < n
            THEN LET id2 == NewId(t, h)
                 IN [sl |-> [arr |-> id2, len |-> n], pool |-> pl,
                     heap |-> (id2 :> Fill(n, 0)) @@ h]
            ELSE [sl |-> [arr |-> it.arr, len |-> n], pool |-> pl, heap |-> h]
        taken == {Resliced(it, pool \ {it}, heap) : it \in pool}
        id1 == NewId(t, heap)
        fresh == Resliced([arr |-> id1, len |-> 0], pool,
                          (id1 :> Fill(PoolCap, 0)) @@ heap)
    IN CASE policy = "any" -> taken \cup {fresh}
         [] policy = "new" -> {fresh}
         [] OTHER -> IF pool = {} THEN {fresh}
                     ELSE {Resliced(it, pool \ {it}, heap) :
                             it \in {CHOOSE x \in pool : TRUE}}

\* `*poolCapsPtr = sl; capsPool.Put(poolCapsPtr)`.  sync.Pool may drop an
\* item at any time; it does when it already holds MaxPool items.
PoolPut(pl, sl) == IF Cardinality(pl) < MaxPool THEN pl \cup {sl} ELSE pl

(***************************************************************************)
(* Helpers of the actions.                                                 *)
(***************************************************************************)
Top(T) == T.stack[Len(T.stack)]
Popped(T) == SubSeq(T.stack, 1, Len(T.stack) - 1)

\* the next state: goroutine t becomes T2, the collector has run
Commit(t, T2, pl2, h2) ==
    /\ thr' = [thr EXCEPT ![t] = T2]
    /\ pool' = pl2
    /\ heap' = Collect(h2, [thr EXCEPT ![t] = T2], pl2)
    /\ UNCHANGED <<re, policy, ops, comp>>

\* the top frame returns r to its caller
Returned(T, r) == [T EXCEPT !.stack = Popped(T), !.hasret = TRUE, !.ret = r]

\* a call of match: the frame is pushed, unless the Go stack is exhausted
Pushed(T, stack, f) ==
    IF f.depth > MaxDepth THEN [T EXCEPT !.st = "overflow"]
    ELSE [T EXCEPT !.stack = Append(stack, f), !.hasret = FALSE]

\* for comparison, a Run that leaves the slice as the pool handed it out
InitCapsSkipped(h, sl) == h
\* vm.go:43-46: Run sets every register of its slice to -1
InitCaps(h, sl) == WriteData(h, sl, Fill(sl.len, -1))

\* vm.go:132: copy(capsCopy, caps)
CopyCaps(h, dst, src) == WriteData(h, dst, Data(h, src))

\* for comparison, a Split that runs its first successor on caps itself
BranchCapsShared(caps, capsCopy) == caps
\* vm.go:135: the capture slice the first successor of a Split runs on
BranchCaps(caps, capsCopy) == capsCopy

\* for comparison, a Run that puts its slice back whatever the outcome
RunReleaseAlways(pl, sl, matched) == PoolPut(pl, sl)
\* vm.go:49-61: Run keeps the slice of a match out of the pool and puts the
\* slice of a failed run back
RunRelease(pl, sl, matched) == IF matched THEN pl ELSE PoolPut(pl, sl)

\* for comparison, a Split that goes on to its second successor whatever
\* the first returned
FirstNeverWins(r) == FALSE
\* vm.go:135: `if endPos, ok := vm.match(inst.Out, pos, capsCopy); ok`: the
\* result r of the first successor is the result of the Split when it matched
FirstWins(r) == r.ok

\* the API call is over with `output`; the goroutine goes on to its next call
FinishOp(T, t, output) ==
    LET more == T.opi < Len(ops[t])
    IN [T EXCEPT !.out = Append(@, output),
                 !.opi = @ + 1,
                 !.st = IF more THEN "scan" ELSE "done",
                 !.pos = 0, !.acc = <<>>, !.tried = <<>>, !.total = 0, !.got = <<>>,
                 !.runCaps = NoSlice, !.hasret = FALSE, !.ret = NoRet]

IsFindAll(name) == name \in {"FindAllStringIndex", "FindAllStringSubmatch"}

\* what the scan returns when its loop ends without a (further) match
LoopEnd(T, o) ==
    IF IsFindAll(o.name) THEN [ok |-> T.acc # <<>>, val |-> T.acc]
    ELSE [ok |-> FALSE, val |-> <<>>]

\* gore.go: the result slice built from the capture registers,
\* result[i] = s[start:end] when both are set and end >= start
SubmatchPanics(s, caps, n) ==
    \E i \in 0..(n - 1) :
        /\ 2 * i + 1 < Len(caps)
        /\ caps[2 * i + 1] >= 0 /\ caps[2 * i + 2] >= caps[2 * i + 1]
        /\ caps[2 * i + 2] > Len(s)

Submatch(s, caps, n) ==
    [j \in 1..n |->
        LET i == j - 1
            start == IF 2 * i < Len(caps) THEN caps[2 * i + 1] ELSE -1
            end == IF 2 * i + 1 < Len(caps) THEN caps[2 * i + 2] ELSE -1
        IN IF start >= 0 /\ end >= 0 /\ end >= start
           THEN SubSeq(s, start + 1, end) ELSE <<>>]

\* how a Lookaround instruction at frame F calls its sub-program: by
\* lookahead at pos, by fixed-length lookbehind at pos - fixedLen, or by the
\* loop over i = 0..pos; call is FALSE when no call is made at all
LookPlan(P, F, inst) ==
    IF ~inst.LookBehind THEN [mode |-> "ahead", call |-> TRUE, at |-> F.pos]
    ELSE IF F.pc \in DOMAIN P.LookbehindLengths /\ P.LookbehindLengths[F.pc] > 0
    THEN [mode |-> "fixed", call |-> F.pos - P.LookbehindLengths[F.pc] >= 0,
          at |-> F.pos - P.LookbehindLengths[F.pc]]
    ELSE [mode |-> "loop", call |-> 0 <= F.pos, at |-> 0]

\* vm.go:191-200: after the sub-matches, frame F goes on or fails
AfterLook(T, F, inst, matched) ==
    IF inst.LookNeg = matched THEN Returned(T, NoRet)
    ELSE [T EXCEPT !.stack = Append(Popped(T), [F EXCEPT !.pc = @ + 1, !.wait = "run"]),
                   !.hasret = FALSE]

\* for comparison, a Lookaround that runs its sub-program on the registers
\* of the frame that executes it
LookCallShared(t, T, F, inst, i) ==
    LET F1 == [F EXCEPT !.wait = "look", !.li = i]
        child == Frame(Append(F.path, F.pc), inst.Prog.Start, i, F.caps, F.depth + 1)
    IN [T |-> Pushed(T, Append(Popped(T), F1), child), heap |-> heap]
\* frame F (the top) calls the sub-program of its Lookaround at position i
\* on a new array, make([]int, NumCap*2)
LookCall(t, T, F, inst, i) ==
    LET id == NewId(t, heap)
        sl == [arr |-> id, len |-> inst.Prog.NumCap * 2]
        F1 == [F EXCEPT !.wait = "look", !.li = i]
        child == Frame(Append(F.path, F.pc), inst.Prog.Start, i, sl, F.depth + 1)
    IN [T |-> Pushed(T, Append(Popped(T), F1), child),
        heap |-> (id :> Fill(sl.len, 0)) @@ heap]

(***************************************************************************)
(* Actions.                                                                *)
(***************************************************************************)
InitThread ==
    [st |-> "scan", opi |-> 1, pos |-> 0, acc |-> <<>>, out |-> <<>>,
     stack |-> <<>>, hasret |-> FALSE, ret |-> NoRet, runCaps |-> NoSlice,
     total |-> 0, tried |-> <<>>, got |-> <<>>]

\* The head of the scan loop of the API call the goroutine is in (match,
\* FindStringIndex, FindStringSubmatch, FindAllStringIndex,
\* FindAllStringSubmatch): the n = 0 return, the loop condition, the prefix
\* skip, and the entry of VM.Run up to its call of match.
Call(t) ==
    /\ thr[t].st = "scan"
    /\ LET T == thr[t]
           o == ops[t][T.opi]
           s == o.input
           P == Progs[re]
           skip == P.Prefix # <<>> /\ T.pos < Len(s)
           prefixPos == Index(s, P.Prefix, T.pos)
           pos == IF skip THEN prefixPos ELSE T.pos
           needed == P.NumCap * 2
       IN IF IsFindAll(o.name) /\ o.n = 0
          THEN Commit(t, FinishOp(T, t, [ok |-> FALSE, val |-> <<>>]), pool, heap)
          ELSE IF ~(/\ T.pos <= Len(s)
                    /\ IsFindAll(o.name) => (o.n < 0 \/ Len(T.acc) < o.n))
          THEN Commit(t, FinishOp(T, t, LoopEnd(T, o)), pool, heap)
          ELSE IF skip /\ T.pos < 0
          THEN Commit(t, [T EXCEPT !.st = "panic"], pool, heap)
          ELSE IF IsFindAll(o.name) /\ Len(T.acc) >= MaxResults
          THEN Commit(t, [T EXCEPT !.st = "unbounded"], pool, heap)
          ELSE IF skip /\ prefixPos = -1
          THEN Commit(t, FinishOp(T, t, LoopEnd(T, o)), pool, heap)
          ELSE \E g \in PoolGet(t, needed) :
                 Commit(t,
                        [T EXCEPT !.st = "vm", !.pos = pos,
                                  !.total = 0, !.hasret = FALSE, !.runCaps = g.sl,
                                  !.got = Data(g.heap, g.sl),
                                  !.stack = <<Frame(<<>>, P.Start, pos, g.sl, 1)>>],
                        g.pool, InitCaps(g.heap, g.sl))

\* One iteration of the loop of VM.match in the running (top) frame.
Dispatch(t) ==
    /\ thr[t].st = "vm" /\ ~thr[t].hasret /\ thr[t].stack # <<>>
    /\ LET T0 == thr[t]
           F0 == Top(T0)
           P == SubProg(Progs[re], F0.path)
           s == ops[t][T0.opi].input
           F == [F0 EXCEPT !.steps = @ + 1]
       IN IF F.steps > maxSteps \/ F.pc >= Len(P.Insts)
          THEN Commit(t, Returned(T0, NoRet), pool, heap)
          ELSE IF F.pc < 0
          THEN Commit(t, [T0 EXCEPT !.st = "panic"], pool, heap)
          ELSE
            LET inst == P.Insts[F.pc + 1]
                T == [T0 EXCEPT !.total = @ + 1]
            IN CASE inst.Op = "OpSplit" ->
                      \E g \in PoolGet(t, F.caps.len) :
                        LET h2 == CopyCaps(g.heap, g.sl, F.caps)
                            F1 == [F EXCEPT !.wait = "split1", !.copy = g.sl,
                                            !.snap = Data(heap, F.caps)]
                            child == Frame(F.path, inst.Out, F.pos,
                                           BranchCaps(F.caps, g.sl), F.depth + 1)
                        IN Commit(t, Pushed(T, Append(Popped(T), F1), child),
                                  g.pool, h2)
                 [] inst.Op = "OpLookaround" ->
                      LET plan == LookPlan(P, F, inst)
                          c == LookCall(t, T, F, inst, plan.at)
                      IN IF plan.call THEN Commit(t, c.T, pool, c.heap)
                         ELSE Commit(t, AfterLook(T, F, inst, FALSE), pool, heap)
                 [] OTHER ->
                      LET e == Exec(s, inst, F.pc, F.pos, Data(heap, F.caps))
                      IN CASE e.k = "next" ->
                                Commit(t,
                                       [T EXCEPT !.stack = Append(Popped(T),
                                           [F EXCEPT !.pc = e.pc, !.pos = e.pos])],
                                       pool, WriteData(heap, F.caps, e.caps))
                           [] e.k = "match" ->
                                Commit(t, Returned(T, [ok |-> TRUE, end |-> F.pos]),
                                       pool, heap)
                           [] e.k = "fail" -> Commit(t, Returned(T, NoRet), pool, heap)
                           [] OTHER -> Commit(t, [T EXCEPT !.st = "panic"], pool, heap)

\* A call of match made by the top frame has returned: the first successor of
\* its Split (vm.go:135-148) or the sub-program of its Lookaround
\* (vm.go:173-200).
Return(t) ==
    /\ thr[t].st = "vm" /\ thr[t].hasret /\ thr[t].stack # <<>>
    /\ LET T == thr[t]
           G == Top(T)
           r == T.ret
           P == SubProg(Progs[re], G.path)
           inst == P.Insts[G.pc + 1]
       IN IF G.wait = "split1"
          THEN IF FirstWins(r)
               THEN Commit(t, Returned(T, r), PoolPut(pool, G.copy),
                           CopyCaps(heap, G.caps, G.copy))
               ELSE Commit(t,
                           Pushed(T, Popped(T),
                                  [Frame(G.path, inst.Out1, G.pos, G.caps, G.depth + 1)
                                     EXCEPT !.snap = G.snap,
                                            !.left = Data(heap, G.copy)]),
                           PoolPut(pool, G.copy), heap)
          ELSE LET plan == LookPlan(P, G, inst)
                   hit == IF plan.mode = "ahead" THEN r.ok
                          ELSE r.ok /\ r.end = G.pos
                   again == plan.mode = "loop" /\ ~hit /\ G.li + 1 <= G.pos
                   c == LookCall(t, T, G, inst, G.li + 1)
               IN IF again THEN Commit(t, c.T, pool, c.heap)
                  ELSE Commit(t, AfterLook(T, G, inst, hit), pool, heap)

\* The root call of match has returned to VM.Run (vm.go:48-61), which
\* returns to the API call.
RunReturn(t) ==
    /\ thr[t].st = "vm" /\ thr[t].hasret /\ thr[t].stack = <<>>
    /\ LET T == thr[t]
           matched == T.ret.ok
       IN Commit(t,
                 [T EXCEPT !.st = "api",
                           !.runCaps = IF matched THEN @ ELSE NoSlice,
                           !.tried = Append(@, [pos |-> T.pos, ok |-> matched])],
                 RunRelease(pool, T.runCaps, matched), heap)

\* the scan moves on: `_, w := input.Step(pos); if w == 0 { break }; pos += w`
Advance(T, t, o) ==
    IF StepPanics(o.input, T.pos) THEN [T EXCEPT !.st = "panic"]
    ELSE LET w == Step(o.input, T.pos)[2]
         IN IF w = 0 THEN FinishOp(T, t, LoopEnd(T, o))
            ELSE [T EXCEPT !.st = "scan", !.pos = @ + w, !.runCaps = NoSlice]

\* The rest of the scan loop's body, after VM.Run has returned.
Consume(t) ==
    /\ thr[t].st = "api"
    /\ LET T == thr[t]
           o == ops[t][T.opi]
           s == o.input
           matched == T.ret.ok
           caps == Data(heap, T.runCaps)
           n == Patterns[re].captures + 1    \* len(re.subexpNames)
           T2 ==
             CASE ~matched -> Advance(T, t, o)
               [] o.name \in {"MatchString", "MatchReader"} -> FinishOp(T, t, [ok |-> TRUE, val |-> <<>>])
               [] o.name = "FindStringIndex" ->
                    IF Len(caps) >= 2
                    THEN FinishOp(T, t, [ok |-> TRUE, val |-> <<caps[1], caps[2]>>])
                    ELSE Advance(T, t, o)
               [] o.name = "FindStringSubmatch" ->
                    IF SubmatchPanics(s, caps, n) THEN [T EXCEPT !.st = "panic"]
                    ELSE FinishOp(T, t, [ok |-> TRUE, val |-> Submatch(s, caps, n)])
               [] OTHER ->
                    IF o.name = "FindAllStringSubmatch" /\ SubmatchPanics(s, caps, n)
                    THEN [T EXCEPT !.st = "panic"]
                    ELSE LET item == IF o.name = "FindAllStringSubmatch"
                                     THEN Submatch(s, caps, n)
                                     ELSE <<caps[1], caps[2]>>
                             T1 == [T EXCEPT !.acc = Append(@, item)]
                             matchEnd == caps[2]
                         IN IF matchEnd = T.pos THEN Advance(T1, t, o)
                            ELSE [T1 EXCEPT !.st = "scan", !.pos = matchEnd,
                                            !.runCaps = NoSlice]
       IN Commit(t, T2, pool, heap)

OpNames == {"MatchString", "MatchReader", "FindStringIndex", "FindStringSubmatch",
            "FindAllStringIndex", "FindAllStringSubmatch"}
\* the values of the argument n of the FindAll calls
Limits == {-1, 0, 1, 3}

\* the API calls on the inputs of pattern i
CallsOf(i) ==
    {[name |-> nm, n |-> -1, input |-> s] :
        nm \in OpNames \ {"FindAllStringIndex", "FindAllStringSubmatch"},
        s \in InputsOf(i)}
    \cup {[name |-> nm, n |-> n, input |-> s] :
            nm \in {"FindAllStringIndex", "FindAllStringSubmatch"},
            n \in Limits, s \in InputsOf(i)}

NoHeap == [id \in {} |-> <<>>]
\* no call of Compile is being looked at: the Regexp is Progs[re]
NoComp == [st |-> "none", expr |-> <<>>, res |-> [err |-> FALSE, msg |-> "", prog |-> NoProg]]

\* one goroutine makes one API call on a compiled pattern; the pool is new
Init ==
    /\ re \in 1..Len(Patterns)
    /\ policy \in {"reuse", "new"}
    /\ ops \in {[t \in {1} |-> <<c>>] : c \in CallsOf(re)}
    /\ thr = [t \in {1} |-> InitThread]
    /\ pool = {}
    /\ heap = NoHeap
    /\ comp = NoComp

Next ==
    \E t \in Threads :
        \/ Call(t)
        \/ Dispatch(t)
        \/ Return(t)
        \/ RunReturn(t)
        \/ Consume(t)

Spec == Init /\ [][Next]_vars

\* the patterns and the calls of the pool and the goroutine specifications
PoolPatterns == {2}
PoolCalls(i) ==
    {c \in CallsOf(i) : c.n = -1 /\ c.name \in {"FindStringSubmatch", "FindAllStringIndex"}}

SubmatchCalls(i) == {c \in CallsOf(i) : c.name = "FindStringSubmatch"}
ConcCalls(i) ==
    {c \in SubmatchCalls(i) : c.input \in SeqsUpTo({97}, MaxLen) \cup {<<98>>}}

\* one goroutine makes two API calls in a row on a compiled pattern; Get may
\* return any item of the pool or a new one
InitPool ==
    /\ re \in PoolPatterns
    /\ policy = "any"
    /\ ops \in {[t \in {1} |-> <<c1, c2>>] :
                  c1 \in PoolCalls(re), c2 \in SubmatchCalls(re)}
    /\ thr = [t \in {1} |-> InitThread]
    /\ pool = {}
    /\ heap = NoHeap
    /\ comp = NoComp

SpecPool == InitPool /\ [][Next]_vars


\* two goroutines make one API call each on the same compiled pattern, their
\* steps interleaved in any order
InitConc ==
    /\ re \in PoolPatterns
    /\ policy = "any"
    /\ ops \in {[t \in {1, 2} |-> <<IF t = 1 THEN c1 ELSE c2>>] :
                  c1, c2 \in ConcCalls(re)}
    /\ thr = [t \in {1, 2} |-> InitThread]
    /\ pool = {}
    /\ heap = NoHeap
    /\ comp = NoComp

SpecConc == InitConc /\ [][Next]_vars

(***************************************************************************)
(* VM.match, VM.Run and the scan loops once more, as functions of their    *)
(* arguments: what one call returns when it runs alone on arrays nobody    *)
(* else holds.  The capture slices are values here; a call that would      *)
(* nest deeper than MaxDepth is reported as "overflow".                    *)
(***************************************************************************)
RECURSIVE MatchF(_, _, _, _, _, _, _)
RECURSIVE LookLoopF(_, _, _, _, _)

\* the result of match as [k, end, caps], k one of "match", "fail",
\* "panic", "overflow"
Outcome(k, end, caps) == [k |-> k, end |-> end, caps |-> caps]

\* the sub-matches of a Lookaround: "hit", "miss", "panic" or "overflow"
LookF(P, s, F, inst, depth) ==
    LET plan == LookPlan(P, F, inst)
        sub == inst.Prog
        one == MatchF(sub, s, sub.Start, plan.at, Fill(sub.NumCap * 2, 0), 0, depth + 1)
    IN IF ~plan.call THEN "miss"
       ELSE IF plan.mode = "loop" THEN LookLoopF(sub, s, 0, F.pos, depth)
       ELSE IF one.k \in {"panic", "overflow"} THEN one.k
       ELSE IF one.k = "match" /\ (plan.mode = "ahead" \/ one.end = F.pos) THEN "hit"
       ELSE "miss"

\* vm.go:179-184: `for i := 0; i <= pos; i++`
LookLoopF(sub, s, i, pos, depth) ==
    IF i > pos THEN "miss"
    ELSE LET one == MatchF(sub, s, sub.Start, i, Fill(sub.NumCap * 2, 0), 0, depth + 1)
         IN IF one.k \in {"panic", "overflow"} THEN one.k
            ELSE IF one.k = "match" /\ one.end = pos THEN "hit"
            ELSE LookLoopF(sub, s, i + 1, pos, depth)

MatchF(P, s, pc, pos, caps, steps, depth) ==
    IF depth > MaxDepth THEN Outcome("overflow", -1, caps)
    ELSE IF steps + 1 > maxSteps \/ pc >= Len(P.Insts) THEN Outcome("fail", -1, caps)
    ELSE IF pc < 0 THEN Outcome("panic", -1, caps)
    ELSE
      LET inst == P.Insts[pc + 1] IN
      CASE inst.Op = "OpSplit" ->
             LET first == MatchF(P, s, inst.Out, pos, caps, 0, depth + 1)
             IN IF first.k = "fail"
                THEN MatchF(P, s, inst.Out1, pos, caps, 0, depth + 1)
                ELSE first
        [] inst.Op = "OpLookaround" ->
             LET look == LookF(P, s, [pc |-> pc, pos |-> pos], inst, depth)
             IN IF look \in {"panic", "overflow"} THEN Outcome(look, -1, caps)
                ELSE IF inst.LookNeg = (look = "hit") THEN Outcome("fail", -1, caps)
                ELSE MatchF(P, s, pc + 1, pos, caps, steps + 1, depth)
        [] OTHER ->
             LET e == Exec(s, inst, pc, pos, caps)
             IN CASE e.k = "next" -> MatchF(P, s, e.pc, e.pos, e.caps, steps + 1, depth)
                  [] e.k = "match" -> Outcome("match", pos, caps)
                  [] OTHER -> Outcome(e.k, -1, caps)

\* VM.Run(pos) on a new array
RunF(P, s, pos) == MatchF(P, s, P.Start, pos, Fill(P.NumCap * 2, -1), 0, 1)

RECURSIVE ScanF(_, _, _, _, _)
\* The scan loop of API call o on pattern i from position pos with the
\* results acc collected so far; skipOn = FALSE is the same scan without
\* the prefix skip.  The result is [st, out]: st = "done" with the value
\* returned, or how the call ended otherwise.
ScanF(i, o, pos, acc, skipOn) ==
    LET P == Progs[i]
        s == o.input
        skip == skipOn /\ P.Prefix # <<>> /\ pos < Len(s)
        prefixPos == Index(s, P.Prefix, pos)
        at == IF skip THEN prefixPos ELSE pos
        run == RunF(P, s, at)
        n == Patterns[i].captures + 1
        Done(acc2) == [st |-> "done", out |-> LoopEnd([acc |-> acc2], o)]
        Value(v) == [st |-> "done", out |-> [ok |-> TRUE, val |-> v]]
        Stop(k) == [st |-> k, out |-> [ok |-> FALSE, val |-> <<>>]]
        AdvanceF(acc2) ==
            IF StepPanics(s, at) THEN Stop("panic")
            ELSE IF Step(s, at)[2] = 0 THEN Done(acc2)
            ELSE ScanF(i, o, at + Step(s, at)[2], acc2, skipOn)
    IN IF ~(/\ pos <= Len(s)
            /\ IsFindAll(o.name) => (o.n < 0 \/ Len(acc) < o.n)) THEN Done(acc)
       ELSE IF skip /\ pos < 0 THEN Stop("panic")
       ELSE IF IsFindAll(o.name) /\ Len(acc) >= MaxResults THEN Stop("unbounded")
       ELSE IF skip /\ prefixPos = -1 THEN Done(acc)
       ELSE IF run.k \in {"panic", "overflow"} THEN Stop(run.k)
       ELSE IF run.k = "fail" THEN AdvanceF(acc)
       ELSE CASE o.name \in {"MatchString", "MatchReader"} -> Value(<<>>)
              [] o.name = "FindStringIndex" -> Value(<<run.caps[1], run.caps[2]>>)
              [] o.name = "FindStringSubmatch" ->
                   IF SubmatchPanics(s, run.caps, n) THEN Stop("panic")
                   ELSE Value(Submatch(s, run.caps, n))
              [] OTHER ->
                   IF o.name = "FindAllStringSubmatch" /\ SubmatchPanics(s, run.caps, n)
                   THEN Stop("panic")
                   ELSE LET item == IF o.name = "FindAllStringSubmatch"
                                    THEN Submatch(s, run.caps, n)
                                    ELSE <<run.caps[1], run.caps[2]>>
                        IN IF run.caps[2] = at THEN AdvanceF(Append(acc, item))
                           ELSE ScanF(i, o, run.caps[2], Append(acc, item), skipOn)

\* API call o on pattern i, alone and on a new pool
ApiF(i, o, skipOn) ==
    IF IsFindAll(o.name) /\ o.n = 0
    THEN [st |-> "done", out |-> [ok |-> FALSE, val |-> <<>>]]
    ELSE ScanF(i, o, 0, <<>>, skipOn)

\* a goroutine whose calls are all over, or that has stopped for good
Halted(t) == thr[t].st \in {"done", "panic", "overflow", "unbounded"}

\* Cross-check of the two renderings of the matcher: a call that has ended
\* ended as ApiF says.
StepwiseAgrees ==
    \A t \in Threads :
        /\ \A k \in 1..Len(thr[t].out) :
             LET ref == ApiF(re, ops[t][k], TRUE)
             IN ref.st = "done" /\ ref.out = thr[t].out[k]
        /\ thr[t].st \in {"panic", "overflow", "unbounded"} =>
             ApiF(re, ops[t][thr[t].opi], TRUE).st = thr[t].st

(***************************************************************************)
(* Compile(expr) on its own: the pattern text is any text of up to MaxExpr *)
(* of the characters ( ) * + ? { } | : a 2, or the text of a pattern of    *)
(* the table; no goroutine matches.                                        *)
(***************************************************************************)
MaxExpr == 4
ExprChars == {40, 41, 42, 43, 63, 123, 125, 124, 58, 97, 50}

\* the patterns of the table as the texts Compile is called with
PatternTexts ==
    {[src |-> "a", text |-> <<97>>],
     [src |-> "(a)b|a", text |-> <<40, 97, 41, 98, 124, 97>>],
     [src |-> "a*", text |-> <<97, 42>>],
     [src |-> "(a*)*", text |-> <<40, 97, 42, 41, 42>>],
     [src |-> "(?:)+", text |-> <<40, 63, 58, 41, 43>>],
     [src |-> "(?=(a))", text |-> <<40, 63, 61, 40, 97, 41, 41>>],
     [src |-> "(?:(a\\1)x*){2}", text |-> <<40, 63, 58, 40, 97, 92, 49, 41, 120, 42, 41, 123, 50, 125>>],
     [src |-> "(?:(a\\1)x*){2}\\1\\1\\1\\1", text |-> <<40, 63, 58, 40, 97, 92, 49, 41, 120, 42, 41, 123, 50, 125, 92, 49, 92, 49, 92, 49, 92, 49>>],
     [src |-> "\\x00", text |-> <<0>>],
     [src |-> "(?<!a)b", text |-> <<40, 63, 60, 33, 97, 41, 98>>],
     [src |-> "(?<=a*)b", text |-> <<40, 63, 60, 61, 97, 42, 41, 98>>],
     [src |-> "^{17}", text |-> <<94, 123, 49, 55, 125>>],
     [src |-> "a*?", text |-> <<97, 42, 63>>],
     [src |-> "(?<=\\u00e9)b", text |-> <<40, 63, 60, 61, 233, 41, 98>>],
     [src |-> "(a)(?=b)", text |-> <<40, 97, 41, 40, 63, 61, 98, 41>>],
     [src |-> "(a)?\\1", text |-> <<40, 97, 41, 63, 92, 49>>],
     [src |-> "(a)?(b)\\1", text |-> <<40, 97, 41, 63, 40, 98, 41, 92, 49>>],
     [src |-> "(a*)\\1", text |-> <<40, 97, 42, 41, 92, 49>>],
     [src |-> "((?:a*)*)\\1", text |-> <<40, 40, 63, 58, 97, 42, 41, 42, 41, 92, 49>>],
     [src |-> "\\Astart", text |-> <<92, 65, 115, 116, 97, 114, 116>>],
     [src |-> "end\\z", text |-> <<101, 110, 100, 92, 122>>],
     [src |-> "end\\Z", text |-> <<101, 110, 100, 92, 90>>],
     [src |-> "(?m)^line", text |-> <<40, 63, 109, 41, 94, 108, 105, 110, 101>>],
     [src |-> "^line", text |-> <<94, 108, 105, 110, 101>>],
     [src |-> "(?m)end$", text |-> <<40, 63, 109, 41, 101, 110, 100, 36>>],
     [src |-> "end$", text |-> <<101, 110, 100, 36>>],
     [src |-> "(a(?i)b)c", text |-> <<40, 97, 40, 63, 105, 41, 98, 41, 99>>],
     [src |-> "b|(?:(a\\1)x*){2}\\1\\1\\1\\1", text |-> <<98, 124, 40, 63, 58, 40, 97, 92, 49, 41, 120, 42, 41, 123, 50, 125, 92, 49, 92, 49, 92, 49, 92, 49>>],
     [src |-> "a{2,4}", text |-> <<97, 123, 50, 44, 52, 125>>],
     [src |-> "a{2,4}?", text |-> <<97, 123, 50, 44, 52, 125, 63>>],
     [src |-> "(?:(?i)a)+", text |-> <<40, 63, 58, 40, 63, 105, 41, 97, 41, 43>>],
     [src |-> "(?<=a|ab)c", text |-> <<40, 63, 60, 61, 97, 124, 97, 98, 41, 99>>]}

InitParse ==
    /\ comp \in {[NoComp EXCEPT !.st = "expr", !.expr = e] :
                   e \in SeqsUpTo(ExprChars, MaxExpr) \cup {r.text : r \in PatternTexts}}
    /\ re = 1
    /\ policy = "new"
    /\ ops = <<>>
    /\ thr = <<>>
    /\ pool = {}
    /\ heap = NoHeap

\* Compile(expr) returns
CompileExpr ==
    /\ comp.st = "expr"
    /\ comp' = [comp EXCEPT !.st = "done", !.res = RegexpCompile(comp.expr)]
    /\ UNCHANGED <<re, policy, ops, thr, pool, heap>>

NextParse == CompileExpr

SpecParse == InitParse /\ [][NextParse]_vars

\* The program Compile returns for the text of a pattern of the table is the
\* program the table has for it.
TableAsCompiled ==
    comp.st = "done" =>
        \A r \in PatternTexts : \A i \in DOMAIN Patterns :
            (r.text = comp.expr /\ Patterns[i].src = r.src) =>
                ~comp.res.err /\ comp.res.prog = Progs[i]

(***************************************************************************)
(* Properties.                                                             *)
(***************************************************************************)
Frames(t) == {thr[t].stack[i] : i \in 1..Len(thr[t].stack)}

\* a frame that is the second successor of a Split and has not run yet
SecondSuccessor(f) == f.wait = "run" /\ f.steps = 0 /\ f.snap # <<>>

\* C1: while the first successor of a Split runs, and when the second
\* successor starts after the first has failed, the capture registers of the
\* Split's frame are exactly those held when the Split was reached: nothing
\* the abandoned branch saved is in them.
C1_SplitRestoresCaptures ==
    \A t \in Threads : \A f \in Frames(t) :
        (f.wait = "split1" \/ SecondSuccessor(f)) => Data(heap, f.caps) = f.snap

\* C1 witness: a second successor starts although the abandoned first
\* successor had saved a register
C1_AbandonedSaveSeen ==
    \E t \in Threads : \E f \in Frames(t) :
        /\ SecondSuccessor(f)
        /\ f.left # f.snap
        /\ Data(heap, f.caps) = f.snap

\* the API call goroutine t is in
InCall(t) == thr[t].opi <= Len(ops[t])
CurOp(t) == ops[t][thr[t].opi]

\* C2: every VM run returns match or no-match: no run gets into a
\* recursion of match that has no end (the state "overflow").
C2_EveryRunReturns == \A t \in Threads : thr[t].st # "overflow"

\* The runs given up as "overflow" do recurse for ever: two nested frames
\* wait at the same Split of the same program at the same position with the
\* same registers, so the inner one repeats the outer one.
OverflowIsDivergence ==
    \A t \in Threads :
        thr[t].st = "overflow" =>
            \E i, j \in 1..Len(thr[t].stack) :
                LET f == thr[t].stack[i]
                    g == thr[t].stack[j]
                IN /\ i < j
                   /\ f.wait = "split1" /\ g.wait = "split1"
                   /\ f.path = g.path /\ f.pc = g.pc /\ f.pos = g.pos
                   /\ f.snap = g.snap

\* C3: no API call panics: every instruction fetch and every register
\* access while matching is within bounds.
C3_NeverPanics == \A t \in Threads : thr[t].st # "panic"

\* C4: when VM.Run has returned a match, every capture group with both
\* registers set has 0 <= start <= end <= len(input).
C4_CapturesOrdered ==
    \A t \in Threads :
        (thr[t].st = "api" /\ thr[t].ret.ok) =>
            LET caps == Data(heap, thr[t].runCaps)
            IN \A i \in 0..(Progs[re].NumCap - 1) :
                 (caps[2 * i + 1] # -1 /\ caps[2 * i + 2] # -1) =>
                     /\ 0 <= caps[2 * i + 1]
                     /\ caps[2 * i + 1] <= caps[2 * i + 2]
                     /\ caps[2 * i + 2] <= Len(CurOp(t).input)

\* C5: a VM.Run that has returned has dispatched, in all its frames
\* together, at most maxSteps instructions.
C5_CeilingBoundsRun ==
    \A t \in Threads : thr[t].st = "api" => thr[t].total <= maxSteps

\* VM.Run has taken its slice and is about to call match
RunStarts(t) ==
    /\ thr[t].st = "vm" /\ thr[t].total = 0 /\ Len(thr[t].stack) = 1
    /\ thr[t].stack[1].depth = 1 /\ thr[t].stack[1].steps = 0

\* C6: whatever earlier calls left in the pool, every VM.Run starts with
\* all its registers -1, returns the outcome and the captures it returns on
\* a new array, and every call returns what it returns on a new pool.
C6_PoolKeepsNoState ==
    \A t \in Threads :
        /\ RunStarts(t) =>
             Data(heap, thr[t].runCaps) = Fill(Progs[re].NumCap * 2, -1)
        /\ thr[t].st = "api" =>
             LET run == RunF(Progs[re], CurOp(t).input, thr[t].pos)
             IN /\ thr[t].ret.ok = (run.k = "match")
                /\ thr[t].ret.ok => Data(heap, thr[t].runCaps) = run.caps
        /\ \A k \in 1..Len(thr[t].out) :
             thr[t].out[k] = ApiF(re, ops[t][k], TRUE).out

\* C6 witness: the second call of a goroutine got from the pool a slice
\* that still held the registers of an earlier run, and its run has
\* returned a match
C6_UsedSliceTaken ==
    \E t \in Threads :
        /\ thr[t].opi = 2 /\ thr[t].st = "api" /\ thr[t].ret.ok
        /\ \E i \in 1..Len(thr[t].got) : thr[t].got[i] \notin {-1, 0}
        /\ \E i \in 1..Len(thr[t].got) : thr[t].got[i] # Data(heap, thr[t].runCaps)[i]

\* the slices the frames of all goroutines run on, and the slices VM.Run
\* took and has handed or will hand to its caller
FrameSlots == {<<t, i>> : t \in Threads, i \in 1..MaxDepth} 
InFlight ==
    {x \in FrameSlots : x[2] <= Len(thr[x[1]].stack)}
ArrayOf(x) == thr[x[1]].stack[x[2]].caps.arr
HeldBy(t) ==
    {thr[t].stack[i].caps.arr : i \in 1..Len(thr[t].stack)}
    \cup (IF thr[t].runCaps = NoSlice THEN {} ELSE {thr[t].runCaps.arr})

\* C7: with the calls of two goroutines interleaved, each call returns
\* what it returns alone; no two frames in flight run on the same array, no
\* array is held by both goroutines, and no array a frame runs on or a
\* caller was handed is in the pool.
C7_InterleavedCallsAgree ==
    /\ \A t \in Threads : \A k \in 1..Len(thr[t].out) :
         thr[t].out[k] = ApiF(re, ops[t][k], TRUE).out
    /\ \A x, y \in InFlight : x # y => ArrayOf(x) # ArrayOf(y)
    /\ \A t, u \in Threads : t # u => HeldBy(t) \cap HeldBy(u) = {}
    /\ \A t \in Threads : \A it \in pool : it.arr \notin HeldBy(t)

\* C7 witness: both goroutines are inside the VM, and a frame of one runs
\* on an array the other allocated and put back
C7_ArrayChangedHands ==
    \E t, u \in Threads :
        /\ t # u
        /\ thr[t].st = "vm" /\ thr[u].st = "vm"
        /\ thr[t].stack # <<>> /\ thr[u].stack # <<>>
        /\ \E id \in HeldBy(t) : id[1] = u

\* C8: no two matches a FindAll call reports start at the same position.
C8_DistinctStarts ==
    \A t \in Threads :
        (InCall(t) /\ IsFindAll(CurOp(t).name)) =>
            /\ \A i, j \in 1..Len(thr[t].tried) :
                 (i < j /\ thr[t].tried[i].ok /\ thr[t].tried[j].ok) =>
                     thr[t].tried[i].pos # thr[t].tried[j].pos
            /\ CurOp(t).name = "FindAllStringIndex" =>
                 \A i, j \in 1..Len(thr[t].acc) :
                     i < j => thr[t].acc[i][1] # thr[t].acc[j][1]

\* the positions a scan of s steps through: 0 and every end of a rune
RECURSIVE RuneStarts(_, _)
RuneStarts(s, pos) ==
    IF Step(s, pos)[2] = 0 THEN {pos}
    ELSE {pos} \cup RuneStarts(s, pos + Step(s, pos)[2])

\* C9: FindStringIndex returns the bounds of the VM's match at the
\* smallest scan position where the VM succeeds, and nil only if the VM
\* fails at every scan position from 0 to len(input).
C9_FindsLeftmost ==
    \A t \in Threads : \A k \in 1..Len(thr[t].out) :
        ops[t][k].name = "FindStringIndex" =>
            LET s == ops[t][k].input
                r == thr[t].out[k]
                hits == {p \in RuneStarts(s, 0) : RunF(Progs[re], s, p).k = "match"}
            IN IF r.ok
               THEN \E p \in hits :
                      /\ \A q \in hits : p <= q
                      /\ r.val = SubSeq(RunF(Progs[re], s, p).caps, 1, 2)
               ELSE hits = {}

\* C10: a call returns what the same scan without the prefix skip returns.
C10_PrefixSkipEquivalent ==
    \A t \in Threads : \A k \in 1..Len(thr[t].out) :
        LET ref == ApiF(re, ops[t][k], FALSE)
        IN ref.st = "done" /\ ref.out = thr[t].out[k]

\* the Save instructions of program P that write register 0 or 1
GroupZeroSaves(P) ==
    {pc \in 0..(Len(P.Insts) - 1) :
        P.Insts[pc + 1].Op = "OpSave" /\ P.Insts[pc + 1].Idx \in {0, 1}}

\* C11: when a VM run started at p has returned a match ending at e,
\* register 0 is p and register 1 is e; FindStringIndex returns exactly
\* these two; and the only instructions of the program that write register 0
\* or 1 are the Save(0) and Save(1) the compiler puts around the whole
\* pattern, never a capture group's.
C11_GroupZeroIsWholeMatch ==
    /\ [](\A t \in Threads :
            /\ (thr[t].st = "api" /\ thr[t].ret.ok) =>
                 /\ Data(heap, thr[t].runCaps)[1] = thr[t].pos
                 /\ Data(heap, thr[t].runCaps)[2] = thr[t].ret.end
            /\ GroupZeroSaves(Progs[re]) = {0, Len(Progs[re].Insts) - 2})
    /\ [][\A t \in Threads :
            (/\ thr[t].st = "api" /\ thr[t].ret.ok
             /\ CurOp(t).name = "FindStringIndex"
             /\ thr'[t] # thr[t])
            => thr'[t].out = Append(thr[t].out,
                                    [ok |-> TRUE,
                                     val |-> <<thr[t].pos, thr[t].ret.end>>])]_vars

\* C11 witness: FindStringIndex on a pattern with a capture group gets a
\* match that starts after position 0 and is not empty
C11_LaterMatchWithGroup ==
    \E t \in Threads :
        /\ thr[t].st = "api" /\ thr[t].ret.ok
        /\ CurOp(t).name = "FindStringIndex"
        /\ Patterns[re].captures >= 1
        /\ thr[t].pos >= 1 /\ thr[t].ret.end > thr[t].pos

\* the first successor of the Split the top frame of t waits at has returned
FirstReturned(t) ==
    /\ thr[t].st = "vm" /\ thr[t].hasret /\ thr[t].stack # <<>>
    /\ Top(thr[t]).wait = "split1"

\* the Split instruction the frame f is at
SplitOf(f) == SubProg(Progs[re], f.path).Insts[f.pc + 1]

\* C12: a Split runs its first successor to its end before anything else.
\* When the first successor has returned a match, the Split's frame returns
\* that end position with the first successor's registers (in its slice, as
\* long as anything still refers to it), and no frame for the second
\* successor is made; a frame for the second successor is made
\* only by a Split whose first successor has returned without a match.
C12_FirstSuccessorFirst ==
    [][\A t \in Threads :
         LET T == thr[t]
             U == thr'[t]
         IN /\ (FirstReturned(t) /\ T.ret.ok /\ U # T) =>
                  /\ U.stack = Popped(T)
                  /\ U.hasret /\ U.ret = T.ret
                  /\ Top(T).caps.arr \in DOMAIN heap' =>
                       Data(heap', Top(T).caps) = Data(heap, Top(T).copy)
            /\ (U.stack # T.stack /\ U.stack # <<>> /\ SecondSuccessor(Top(U))) =>
                  /\ FirstReturned(t) /\ ~T.ret.ok
                  /\ Len(U.stack) = Len(T.stack)
                  /\ Top(U).pc = SplitOf(Top(T)).Out1
                  /\ Top(U).pos = Top(T).pos
                  /\ Top(U).caps = Top(T).caps]_vars

\* C12 witness: the first successor of a Split has returned a match, and the
\* second successor would match from there too, ending elsewhere
C12_BothSuccessorsMatch ==
    \E t \in Threads :
        /\ FirstReturned(t) /\ thr[t].ret.ok
        /\ LET G == Top(thr[t])
               other == MatchF(SubProg(Progs[re], G.path), CurOp(t).input,
                               SplitOf(G).Out1, G.pos, G.snap, 0, 1)
           IN other.k = "match" /\ other.end # thr[t].ret.end

(***************************************************************************)
(* The texts a pattern stands for, by the usual meaning of literals,       *)
(* concatenation, alternation, groups and the star: Denotes(n, s, i) is    *)
(* the set of positions j such that s[i:j] is a text of n.  This is the    *)
(* yardstick of the claims about match lengths, not a model of the code.   *)
(***************************************************************************)
RECURSIVE Denotes(_, _, _)
RECURSIVE DenotesSeq(_, _, _, _)
RECURSIVE DenotesStar(_, _, _)

\* the ends of the texts of nodes[k..] started at a position of `from`
DenotesSeq(nodes, k, s, from) ==
    IF k > Len(nodes) THEN from
    ELSE DenotesSeq(nodes, k + 1, s, UNION {Denotes(nodes[k], s, i) : i \in from})

\* the ends of zero or more texts of body in a row, started at a position of `from`
DenotesStar(body, s, from) ==
    LET more == from \cup UNION {Denotes(body, s, i) : i \in from}
    IN IF more = from THEN from ELSE DenotesStar(body, s, more)

Denotes(n, s, i) ==
    CASE n.type = "Literal" ->
           IF HasPrefixAt(s, EncodeRunes(n.Runes), i)
           THEN {i + Len(EncodeRunes(n.Runes))} ELSE {}
      [] n.type = "Concat" -> DenotesSeq(n.Nodes, 1, s, {i})
      [] n.type = "Alternate" -> UNION {Denotes(n.Nodes[k], s, i) : k \in 1..Len(n.Nodes)}
      [] n.type = "Capture" -> Denotes(n.Body, s, i)
      [] n.type = "Quantifier" /\ n.Min = 0 /\ n.Max = -1 -> DenotesStar(n.Body, s, {i})
      [] OTHER -> {}

\* the pattern is B* or B*? as a whole
IsStar(i) ==
    /\ Patterns[i].ast.type = "Quantifier"
    /\ Patterns[i].ast.Min = 0 /\ Patterns[i].ast.Max = -1

Largest(S) == CHOOSE x \in S : \A y \in S : y <= x
Smallest(S) == CHOOSE x \in S : \A y \in S : x <= y

\* C13: when the input admits several match lengths of B* from the start
\* position, the run of greedy B* returns the match of maximum length and the
\* run of non-greedy B*? the match of minimum length.
C13_GreedyLongestLazyShortest ==
    \A t \in Threads :
        (/\ IsStar(re) /\ InCall(t)
         /\ thr[t].st \in {"api", "overflow", "panic"}
         /\ Cardinality(Denotes(Patterns[re].ast, CurOp(t).input, thr[t].pos)) >= 2)
        => LET ends == Denotes(Patterns[re].ast, CurOp(t).input, thr[t].pos)
           IN /\ thr[t].st = "api" /\ thr[t].ret.ok
              /\ thr[t].ret.end = IF Patterns[re].ast.Greedy THEN Largest(ends)
                                                             ELSE Smallest(ends)

\* the body of the first Lookaround node of an AST, or a node of type "none"
RECURSIVE LookBodyIn(_)
RECURSIVE LookBodyAmong(_, _)
LookBodyAmong(nodes, k) ==
    IF k > Len(nodes) THEN [type |-> "none"]
    ELSE IF LookBodyIn(nodes[k]).type # "none" THEN LookBodyIn(nodes[k])
    ELSE LookBodyAmong(nodes, k + 1)
LookBodyIn(n) ==
    CASE n.type = "Lookaround" -> n.Body
      [] n.type \in {"Concat", "Alternate"} -> LookBodyAmong(n.Nodes, 1)
      [] n.type \in {"Quantifier", "Capture"} -> LookBodyIn(n.Body)
      [] OTHER -> [type |-> "none"]

\* the top frame of t, a frame of the main program, is at a lookbehind and
\* about to run it or to hear from its sub-program
AtLookbehind(t) ==
    /\ thr[t].st = "vm" /\ thr[t].stack # <<>>
    /\ LET f == Top(thr[t])
       IN /\ f.path = <<>> /\ f.pc >= 0 /\ f.pc < Len(Progs[re].Insts)
          /\ Progs[re].Insts[f.pc + 1].Op = "OpLookaround"
          /\ Progs[re].Insts[f.pc + 1].LookBehind
          /\ \/ (f.wait = "run" /\ ~thr[t].hasret /\ f.steps < maxSteps)
             \/ (f.wait = "look" /\ thr[t].hasret)

\* there is a start i in 0..pos from which the body X matches ending at pos
EndsAt(X, s, pos) == \E i \in 0..pos : pos \in Denotes(X, s, i)

\* C14: the step that settles a lookbehind lets the frame go on to the next
\* instruction exactly when (positive) some start i in 0..pos has a match of
\* X ending at pos, or (negative) none has; otherwise the frame fails.
C14_LookbehindFindsAnyStart ==
    [][\A t \in Threads :
         LET T == thr[t]
             U == thr'[t]
             f == Top(T)
             inst == Progs[re].Insts[f.pc + 1]
             settled == U # T /\ U.st = "vm" /\ Len(U.stack) <= Len(T.stack)
             passed == Len(U.stack) = Len(T.stack) /\ Top(U).pc = f.pc + 1
             wanted == inst.LookNeg #
                       EndsAt(LookBodyIn(Patterns[re].ast), CurOp(t).input, f.pos)
         IN (AtLookbehind(t) /\ settled) => (passed <=> wanted)]_vars

\* frame k of goroutine t is at a Lookaround instruction: about to execute
\* it, or waiting for its sub-program
AtLookaround(t, k) ==
    LET f == thr[t].stack[k]
        P == SubProg(Progs[re], f.path)
    IN /\ thr[t].st = "vm"
       /\ f.pc >= 0 /\ f.pc < Len(P.Insts) /\ P.Insts[f.pc + 1].Op = "OpLookaround"
       /\ \/ f.wait = "look"
          \/ (k = Len(thr[t].stack) /\ f.wait = "run" /\ ~thr[t].hasret)

\* frame k of goroutine t is the first frame of a sub-program, not yet run
SubProgramStarts(t, k) ==
    /\ k > 1
    /\ thr[t].stack[k - 1].wait = "look"
    /\ thr[t].stack[k].steps = 0 /\ thr[t].stack[k].wait = "run"
    /\ ~SecondSuccessor(thr[t].stack[k])

\* C15: from the moment a frame reaches a Lookaround until the instruction
\* is settled, no step changes the frame's position or any of its capture
\* registers, and the frame then either goes on at pc + 1 or fails; the
\* sub-program starts on an array of its own that no other frame and no
\* pooled slice refers to and that holds nothing of the outer registers.
C15_LookaroundKeepsOuterState ==
    /\ [](\A t \in Threads : \A k \in 1..Len(thr[t].stack) :
            SubProgramStarts(t, k) =>
                LET g == thr[t].stack[k]
                IN /\ Data(heap, g.caps) = Fill(g.caps.len, 0)
                   /\ \A j \in 1..Len(thr[t].stack) :
                        j # k => /\ thr[t].stack[j].caps.arr # g.caps.arr
                                 /\ thr[t].stack[j].copy.arr # g.caps.arr
                   /\ \A it \in pool : it.arr # g.caps.arr)
    /\ [][\A t \in Threads : \A k \in 1..Len(thr[t].stack) :
            LET f == thr[t].stack[k]
                U == thr'[t]
            IN (AtLookaround(t, k) /\ U # thr[t] /\ U.st = "vm") =>
                 /\ f.caps.arr \in DOMAIN heap' =>
                      Data(heap', f.caps) = Data(heap, f.caps)
                 /\ Len(U.stack) >= k =>
                      /\ U.stack[k].pos = f.pos /\ U.stack[k].caps = f.caps
                      /\ U.stack[k].pc \in {f.pc, f.pc + 1}
                      /\ U.stack[k].pc = f.pc + 1 => Len(U.stack) = k]_vars

\* C15 witness: the sub-program of a Lookaround has returned a match, having
\* saved its own registers, to a frame that holds a set capture group
C15_LookaheadMatchedAfterGroup ==
    \E t \in Threads :
        /\ thr[t].st = "vm" /\ thr[t].hasret /\ thr[t].ret.ok
        /\ thr[t].stack # <<>> /\ Top(thr[t]).wait = "look"
        /\ Len(Data(heap, Top(thr[t]).caps)) >= 4
        /\ Data(heap, Top(thr[t]).caps)[3] # -1
        /\ Data(heap, Top(thr[t]).caps)[4] # -1
        /\ thr[t].ret.end # Top(thr[t]).pos

\* the top frame of t is about to execute a Backref whose group is unset
AtUnsetBackref(t) ==
    /\ thr[t].st = "vm" /\ ~thr[t].hasret /\ thr[t].stack # <<>>
    /\ LET f == Top(thr[t])
           P == SubProg(Progs[re], f.path)
           caps == Data(heap, f.caps)
       IN /\ f.wait = "run" /\ f.steps < maxSteps
          /\ f.pc >= 0 /\ f.pc < Len(P.Insts)
          /\ P.Insts[f.pc + 1].Op = "OpBackref"
          /\ P.Insts[f.pc + 1].Idx * 2 + 1 < Len(caps)
          /\ \/ caps[P.Insts[f.pc + 1].Idx * 2 + 1] = -1
             \/ caps[P.Insts[f.pc + 1].Idx * 2 + 2] = -1

\* the input of the call t is in holds no a
NoMatchOfX(t) == \A i \in 1..Len(CurOp(t).input) : CurOp(t).input[i] # 97

C17_UnsetBackrefFails ==
    \A t \in Threads :
        Patterns[re].src = "(a)?(b)\\1" =>
          /\ (thr[t].st = "api" /\ thr[t].ret.ok) =>
                /\ Data(heap, thr[t].runCaps)[3] # -1
                /\ Data(heap, thr[t].runCaps)[4] # -1
          /\ \A k \in 1..Len(thr[t].out) :
                ops[t][k].name = "MatchString" =>
                  /\ ops[t][k].input = <<98, 97>> => ~thr[t].out[k].ok
                  /\ ops[t][k].input = <<97, 98, 97>> => thr[t].out[k].ok

\* the pattern is (X)\1
IsGroupThenRef(i) ==
    LET n == Patterns[i].ast
    IN /\ n.type = "Concat" /\ Len(n.Nodes) = 2
       /\ n.Nodes[1].type = "Capture" /\ n.Nodes[1].Index = 1
       /\ n.Nodes[2].type = "Backreference" /\ n.Nodes[2].Index = 1

\* s is YY for a text Y of the sub-pattern X
IsDoubled(X, s) ==
    /\ Len(s) % 2 = 0
    /\ LET h == Len(s) \div 2
       IN /\ SubSeq(s, 1, h) = SubSeq(s, h + 1, 2 * h)
          /\ h \in Denotes(X, SubSeq(s, 1, h), 0)

\* C18: for a text Y of X, every call of (X)\1 on YY comes back, MatchString
\* finds a match, and in every match the backreference has consumed exactly
\* the text of group 1: the match ends one capture length after the group,
\* on an equal text.
C18_GroupThenRefMatchesDoubled ==
    \A t \in Threads :
        IsGroupThenRef(re) =>
          /\ (InCall(t) /\ IsDoubled(Patterns[re].ast.Nodes[1].Body, CurOp(t).input)) =>
                /\ thr[t].st \notin {"overflow", "panic"}
                /\ (thr[t].st = "api" /\ thr[t].ret.ok) =>
                      LET caps == Data(heap, thr[t].runCaps)
                          s == CurOp(t).input
                      IN /\ caps[3] >= 0 /\ caps[3] <= caps[4]
                         /\ thr[t].ret.end = caps[4] + (caps[4] - caps[3])
                         /\ SubSeq(s, caps[3] + 1, caps[4]) =
                              SubSeq(s, caps[4] + 1, thr[t].ret.end)
          /\ \A k \in 1..Len(thr[t].out) :
                (/\ ops[t][k].name = "MatchString"
                 /\ IsDoubled(Patterns[re].ast.Nodes[1].Body, ops[t][k].input))
                => thr[t].out[k].ok

\* the top frame of t is about to check an assertion of the kind
AtAssertion(t, kind) ==
    /\ thr[t].st = "vm" /\ ~thr[t].hasret /\ thr[t].stack # <<>>
    /\ LET f == Top(thr[t])
           P == SubProg(Progs[re], f.path)
       IN /\ f.wait = "run" /\ f.steps < maxSteps
          /\ f.pc >= 0 /\ f.pc < Len(P.Insts)
          /\ P.Insts[f.pc + 1].Op = "OpAssert"
          /\ P.Insts[f.pc + 1].AssertKind = kind

\* the assertion the top frame of t was at has succeeded in this step
AssertionPassed(t) ==
    /\ thr'[t] # thr[t]
    /\ thr'[t].st = "vm" /\ Len(thr'[t].stack) = Len(thr[t].stack)
    /\ Top(thr'[t]).pc = Top(thr[t]).pc + 1

\* C19: \A succeeds only at position 0, whichever start position the scan
\* is trying; \Astart matches "start" and does not match "\nstart".
C19_StringStartOnlyAtZero ==
    /\ [][\A t \in Threads :
            (AtAssertion(t, "AssertStringStart") /\ AssertionPassed(t))
            => Top(thr[t]).pos = 0]_vars
    /\ [](\A t \in Threads :
            Patterns[re].src = "\\Astart" =>
              \A k \in 1..Len(thr[t].out) :
                  ops[t][k].name = "MatchString" =>
                    /\ ops[t][k].input = <<115, 116, 97, 114, 116>>
                          => thr[t].out[k].ok
                    /\ ops[t][k].input = <<10, 115, 116, 97, 114, 116>>
                          => ~thr[t].out[k].ok)

\* C20: \z succeeds only at the end of the input and \Z only there or before
\* one final newline; end\z does not match "end\n" and end\Z does not match
\* "end\nmore".
C20_StringEndOnlyAtEnd ==
    /\ [][\A t \in Threads :
            LET s == CurOp(t).input
                pos == Top(thr[t]).pos
            IN /\ (AtAssertion(t, "AssertAbsoluteEnd") /\ AssertionPassed(t))
                  => pos = Len(s)
               /\ (AtAssertion(t, "AssertStringEnd") /\ AssertionPassed(t))
                  => \/ pos = Len(s)
                     \/ pos = Len(s) - 1 /\ s[Len(s)] = 10]_vars
    /\ [](\A t \in Threads :
            \A k \in 1..Len(thr[t].out) :
                ops[t][k].name = "MatchString" =>
                  /\ Patterns[re].src = "end\\z" =>
                        /\ ops[t][k].input = <<101, 110, 100>> => thr[t].out[k].ok
                        /\ ops[t][k].input = <<101, 110, 100, 10>> => ~thr[t].out[k].ok
                  /\ Patterns[re].src = "end\\Z" =>
                        /\ ops[t][k].input = <<101, 110, 100>> => thr[t].out[k].ok
                        /\ ops[t][k].input = <<101, 110, 100, 10>> => thr[t].out[k].ok
                        /\ ops[t][k].input = <<101, 110, 100, 10, 109, 111, 114, 101>>
                              => ~thr[t].out[k].ok)

\* C21: with the m flag ^ also holds just after a newline and $ just before
\* one: (?m)^line matches "first\nline" and (?m)end$ matches "end\nmore";
\* without the flag neither pattern matches its text.
C21_MultilineAnchorsAtLineBounds ==
    \A t \in Threads :
        \A k \in 1..Len(thr[t].out) :
            ops[t][k].name = "MatchString" =>
              /\ ops[t][k].input = <<102, 105, 114, 115, 116, 10, 108, 105, 110, 101>> =>
                    /\ Patterns[re].src = "(?m)^line" => thr[t].out[k].ok
                    /\ Patterns[re].src = "^line" => ~thr[t].out[k].ok
              /\ ops[t][k].input = <<101, 110, 100, 10, 109, 111, 114, 101>> =>
                    /\ Patterns[re].src = "(?m)end$" => thr[t].out[k].ok
                    /\ Patterns[re].src = "end$" => ~thr[t].out[k].ok

\* C22: a flag group inside a parenthesised group holds to the end of that
\* group only: in (a(?i)b)c the b is matched without regard to case and the
\* c with regard to it.
C22_FlagsEndWithGroup ==
    \A t \in Threads :
        Patterns[re].src = "(a(?i)b)c" =>
          \A k \in 1..Len(thr[t].out) :
              ops[t][k].name = "MatchString" =>
                /\ ops[t][k].input = <<97, 98, 99>> => thr[t].out[k].ok
                /\ ops[t][k].input = <<97, 66, 99>> => thr[t].out[k].ok
                /\ ops[t][k].input = <<97, 98, 67>> => ~thr[t].out[k].ok

\* C23: FindAllStringIndex returns nil for n = 0 and at most n matches for
\* n > 0, and the matches it returns are in text order and do not overlap:
\* a match starts at or after the start and the end of every match
\* reported before it.
C23_FindAllOrderedDisjoint ==
    \A t \in Threads :
        \A k \in 1..Len(thr[t].out) :
            ops[t][k].name = "FindAllStringIndex" =>
              LET val == thr[t].out[k].val
              IN /\ ops[t][k].n = 0 => ~thr[t].out[k].ok /\ val = <<>>
                 /\ ops[t][k].n > 0 => Len(val) <= ops[t][k].n
                 /\ \A i, j \in 1..Len(val) :
                        i < j => val[j][1] >= val[i][2] /\ val[j][1] >= val[i][1]

\* C24: in the registers of every successful run each group is set on both
\* sides or on neither: its start is -1 exactly when its end is -1.
C24_GroupsSetOnBothSides ==
    \A t \in Threads :
        (thr[t].st = "api" /\ thr[t].ret.ok) =>
            LET caps == Data(heap, thr[t].runCaps)
            IN \A g \in 0..(Len(caps) \div 2 - 1) :
                   (caps[2 * g + 1] = -1) <=> (caps[2 * g + 2] = -1)

\* C24 witness: a match in which one group took part and another did not
C24_MatchWithUnsetGroup ==
    \E t \in Threads :
        /\ thr[t].st = "api" /\ thr[t].ret.ok
        /\ LET caps == Data(heap, thr[t].runCaps)
           IN /\ Len(caps) = 6
              /\ caps[3] = -1 /\ caps[4] = -1
              /\ caps[5] # -1 /\ caps[6] # -1

\* how many times a stands in a row in s from the byte offset pos on
RECURSIVE RunOfA(_, _)
RunOfA(s, pos) ==
    IF pos < Len(s) /\ s[pos + 1] = 97 THEN 1 + RunOfA(s, pos + 1) ELSE 0

\* the pattern is a{n,m} or a{n,m}? with n < m
IsBoundedA(i) ==
    LET q == Patterns[i].ast
    IN /\ q.type = "Quantifier" /\ q.Min >= 0 /\ q.Max > q.Min
       /\ q.Body = Literal(<<97>>, FALSE)

\* C25: a run of a{n,m} matches exactly when at least n a stand at its start
\* position; greedy it takes them up to m, non-greedy it takes n.  So
\* a{2,4} finds [0,4] in "aaaaa", a{2,4}? finds [0,2], and a{2,4} does not
\* match "a".
C25_BoundedRepetition ==
    \A t \in Threads :
        IsBoundedA(re) =>
          LET q == Patterns[re].ast IN
          /\ (InCall(t) /\ thr[t].st = "api") =>
                LET c == RunOfA(CurOp(t).input, thr[t].pos)
                IN /\ thr[t].ret.ok <=> c >= q.Min
                   /\ thr[t].ret.ok =>
                        thr[t].ret.end - thr[t].pos =
                          IF ~q.Greedy THEN q.Min
                          ELSE IF c < q.Max THEN c ELSE q.Max
          /\ \A k \in 1..Len(thr[t].out) :
                /\ (ops[t][k].name = "FindStringIndex"
                      /\ ops[t][k].input = <<97, 97, 97, 97, 97>>)
                   => thr[t].out[k].val = IF q.Greedy THEN <<0, 4>> ELSE <<0, 2>>
                /\ (ops[t][k].name = "MatchString" /\ ops[t][k].input = <<97>>)
                   => ~thr[t].out[k].ok

\* C25 witness: FindStringIndex of the non-greedy a{2,4}? on "aaaaa" has
\* returned
C25_LazyOnFiveReturned ==
    \E t \in Threads :
        /\ IsBoundedA(re) /\ ~Patterns[re].ast.Greedy
        /\ Len(thr[t].out) = 1
        /\ ops[t][1].name = "FindStringIndex"
        /\ ops[t][1].input = <<97, 97, 97, 97, 97>>
        /\ thr[t].out[1].ok

\* the byte i of the text e is one of * + ? { and stands where a pattern, a
\* group or an alternation branch begins
BareQuantifierAt(e, i) ==
    /\ e[i] \in {42, 43, 63, 123}
    /\ \/ i = 1
       \/ e[i - 1] = 124
       \/ e[i - 1] = 40 /\ e[i] # 63
       \/ i >= 4 /\ e[i - 3] = 40 /\ e[i - 2] = 63 /\ e[i - 1] = 58

\* C26: Compile of a text with a quantifier that has nothing before it to
\* repeat, at the start of the pattern, of a group or of an alternation
\* branch, returns an error and no Regexp.
C26_BareQuantifierRejected ==
    (comp.st = "done" /\ \E i \in 1..Len(comp.expr) : BareQuantifierAt(comp.expr, i))
    => comp.res.err /\ comp.res.prog = NoProg

\* C26 witness: Compile("(*a)") has returned its error
C26_StarOpensGroup ==
    /\ comp.st = "done" /\ comp.expr = <<40, 42, 97, 41>>
    /\ comp.res.err /\ comp.res.msg = "quantifier requires a target"

\* every Save of the program P and of the sub-programs of its lookarounds
\* writes a register of the array the program is run with
RECURSIVE SavesInRange(_)
SavesInRange(P) ==
    \A k \in 1..Len(P.Insts) :
        /\ P.Insts[k].Op = "OpSave" => P.Insts[k].Idx < 2 * P.NumCap
        /\ P.Insts[k].Op = "OpLookaround" => SavesInRange(P.Insts[k].Prog)

\* C27: in every program the VM runs, the top-level one or the sub-program
\* of a lookaround, every Save register index is smaller than 2 * NumCap,
\* and a frame at a Save holds an array that long.
C27_SaveWithinRegisters ==
    /\ SavesInRange(Progs[re])
    /\ \A t \in Threads :
          \A k \in 1..Len(thr[t].stack) :
              LET f == thr[t].stack[k]
                  P == SubProg(Progs[re], f.path)
              IN (f.pc >= 0 /\ f.pc < Len(P.Insts) /\ P.Insts[f.pc + 1].Op = "OpSave")
                 => P.Insts[f.pc + 1].Idx < f.caps.len

\* every Jmp target and both successors of every Split of the program P and
\* of the sub-programs of its lookarounds are instruction indices of it
RECURSIVE TargetsValid(_)
TargetsValid(P) ==
    LET Valid(pc) == pc >= 0 /\ pc < Len(P.Insts)
    IN \A k \in 1..Len(P.Insts) :
           /\ P.Insts[k].Op = "OpJmp" => Valid(P.Insts[k].Out)
           /\ P.Insts[k].Op = "OpSplit" => Valid(P.Insts[k].Out) /\ Valid(P.Insts[k].Out1)
           /\ P.Insts[k].Op = "OpLookaround" => TargetsValid(P.Insts[k].Prog)

\* C28: in every program the compiler emits, every Jmp target and both
\* successors of every Split are valid instruction indices, whatever the
\* quantified body is; and no frame is at a pc outside its program.
C28_JumpTargetsValid ==
    /\ TargetsValid(Progs[re])
    /\ \A t \in Threads :
          \A k \in 1..Len(thr[t].stack) :
              LET f == thr[t].stack[k]
              IN f.pc >= 0 /\ f.pc < Len(SubProg(Progs[re], f.path).Insts)

\* the length recorded for the lookbehind the top frame of t is at
FixedLenAt(t) == Progs[re].LookbehindLengths[Top(thr[t]).pc]

\* C29: a lookbehind recorded with a fixed length L > 0, which is tried at
\* the start pos - L only, is settled as the scan over every start 0..pos
\* would settle it, multi-byte runes in the input included.
C29_FixedStartAgreesWithScan ==
    [][\A t \in Threads :
         LET T == thr[t]
             U == thr'[t]
             f == Top(T)
             inst == Progs[re].Insts[f.pc + 1]
             settled == U # T /\ U.st = "vm" /\ Len(U.stack) <= Len(T.stack)
             passed == Len(U.stack) = Len(T.stack) /\ Top(U).pc = f.pc + 1
             scan == LookLoopF(inst.Prog, CurOp(t).input, 0, f.pos, 1)
         IN (AtLookbehind(t) /\ FixedLenAt(t) > 0 /\ settled)
            => (passed <=> (inst.LookNeg # (scan = "hit")))]_vars

\* C30: in a FindAll call the positions the VM runs start at strictly
\* increase from one run to the next, so that at most len(input)+1 runs are
\* made and the scan ends.
C30_ScanPositionIncreases ==
    \A t \in Threads :
        (InCall(t) /\ IsFindAll(CurOp(t).name)) =>
            /\ \A i, j \in 1..Len(thr[t].tried) :
                 i < j => thr[t].tried[i].pos < thr[t].tried[j].pos
            /\ Len(thr[t].tried) <= Len(CurOp(t).input) + 1
            /\ thr[t].st # "unbounded"

====
